---- MODULE Spec2Model ----
(***************************************************************************)
(* Version / dependency management of the table catalog: one base table,   *)
(* views and snapshots created over it (View._create), the cascading       *)
(* insert / update / delete protocol of TableVersion, and the DataFrame    *)
(* entry points for update and delete.                                     *)
(***************************************************************************)
EXTENDS Integers, Sequences, FiniteSets, TLC

\* ---------------------------------------------------------------- bounds
MaxRows == 2        \* rows ever inserted into the base table
MaxVersion == 2     \* version cap of every TableVersion
MaxViews == 2       \* views / snapshots ever created
MaxDFs == 3         \* DataFrame objects ever built

\* ---------------------------------------------------------------- domains
\* id 1 is the base table, the others are views; an id is never handed out
\* twice, so the views that replace dropped ones get ids of their own
Ids == 1..(MaxViews + 2)
Vals == {0, 1}                    \* cell values
BaseCols == {"c2", "c3", "c10"}   \* columns of the base table
ViewCols == {"x3", "x10"}         \* computed columns a view may declare
Preds == {"none", "c2lt1"}        \* view filters and where clauses

VARIABLES
    tbls,            \* Catalog.tbls: id -> catalog handle
    tbl_dependents,  \* Catalog.tbl_dependents: id -> sequence of view ids
    version,         \* TableVersion.version per table id
    schema,          \* computed columns owned by the live TableVersion of an id
    store,           \* store table per id: rows with a lifetime [v_min, v_max)
    next_id,         \* next catalog id to hand out
    next_rowid,      \* next rowid of the base table
    _is_dropped,     \* Table._is_dropped per handle (handles outlive the catalog)
    is_dropped,      \* attribute is_dropped per handle, as View._drop assigns it
    dropped_versions, \* ids whose TableVersion (store table, metadata) was dropped
    columns,         \* columns added through add_column(s): id -> (name -> Column)
    dfs,             \* the DataFrame objects built so far, in creation order
    dataset_cache,   \* the exports in Env.dataset_cache_dir, by cache key
    session,         \* the View._create call under way and its transaction
    scan,            \* the query execution under way: plan and connection
    last             \* the last operation, its arguments and its outcome

vars == <<tbls, tbl_dependents, version, schema, store, next_id, next_rowid,
          _is_dropped, is_dropped, dropped_versions, columns, dfs, dataset_cache,
          session, scan, last>>

\* ------------------------------------------------------------ expressions
\* columns referenced by a filter
PredRefs(p) == IF p = "none" THEN {} ELSE {"c2"}

\* value of a filter on a base row
PredHolds(p, vals) ==
    CASE p = "none" -> TRUE
      [] p = "c2lt1" -> vals.c2 < 1
      [] p = "c2ge1" -> vals.c2 >= 1

\* columns referenced by the value expression of a computed column
ColRefs(c) == IF c = "x3" THEN {"c3"} ELSE {"c10"}

\* value expression of a computed column, evaluated on a base row
\* (x3 = c3 * 2, x10 = c10 + 1)
ColValue(c, vals) == IF c = "x3" THEN vals.c3 * 2 ELSE vals.c10 + 1

\* ------------------------------------------------- TableVersion and paths
\* a live TableVersion reference; its version and columns are those of the id
LiveTv(id) == [id |-> id, is_snapshot |-> FALSE, version |-> 0, cols |-> {}]

\* a snapshot TableVersion: pins the version and the columns
SnapTv(id, v, cols) == [id |-> id, is_snapshot |-> TRUE, version |-> v, cols |-> cols]

\* the version a TableVersion reads its store table at
EffVersion(tv, ver) == IF tv.is_snapshot THEN tv.version ELSE ver[tv.id]

\* the computed columns a TableVersion exposes
TvCols(tv, sch) == IF tv.is_snapshot THEN tv.cols ELSE sch[tv.id]

\* TableVersionPath.is_snapshot(): every version of the chain is a snapshot
PathIsSnapshot(path) == \A i \in DOMAIN path : path[i].is_snapshot

\* TableVersionPath.tbl_id(): id of the first TableVersion of the chain
PathTblId(path) == path[1].id

\* TableVersionPath.get_tbl_versions()
PathIds(path) == {path[i].id : i \in DOMAIN path}

\* a store row is visible at version v iff v_min <= v < v_max
Alive(r, v) == r.vmin <= v /\ \A m \in r.vmax : v < m

\* rows of one TableVersion visible at its effective version
TvRows(tv, ver, st) == {r \in st[tv.id] : Alive(r, EffVersion(tv, ver))}

\* rowids visible through a path: the join of all its TableVersions on rowid
PathRids(path, ver, st) ==
    {rid \in 1..MaxRows :
        \A i \in DOMAIN path : \E r \in TvRows(path[i], ver, st) : r.rid = rid}

\* the visible store row of a rowid in one TableVersion
TvRow(tv, rid, ver, st) == CHOOSE r \in TvRows(tv, ver, st) : r.rid = rid

\* the base-table row (c2, c3, c10) a path sees for a rowid
RootVals(path, rid, ver, st) == TvRow(path[Len(path)], rid, ver, st).vals

\* all columns visible through a path
PathCols(path, sch) == BaseCols \cup UNION {TvCols(path[i], sch) : i \in DOMAIN path}

\* the TableVersion of a path that owns computed column c (the one closest to
\* the head of the chain)
ColOwner(path, c, sch) ==
    CHOOSE i \in DOMAIN path :
        /\ c \in TvCols(path[i], sch)
        /\ \A j \in DOMAIN path : c \in TvCols(path[j], sch) => i <= j

\* value of column c of rowid rid seen through a path
CellValue(path, rid, c, ver, sch, st) ==
    IF c \in BaseCols
    THEN RootVals(path, rid, ver, st)[c]
    ELSE TvRow(path[ColOwner(path, c, sch)], rid, ver, st).vals[c]

\* result of querying a path: rowid -> (column -> value)
Collect(path, ver, sch, st) ==
    [rid \in PathRids(path, ver, st) |->
        [c \in PathCols(path, sch) |-> CellValue(path, rid, c, ver, sch, st)]]

\* ------------------------------------------------------- catalog helpers
\* a view with a TableVersion of its own that is not a snapshot version
IsMutableView(d) ==
    /\ tbls[d].kind = "view"
    /\ ~tbls[d].snapshot_only
    /\ ~tbls[d].path[1].is_snapshot

\* view d reads the live version of table t: its base_versions entry for t
\* carries no pinned version
TracksLive(d, t) ==
    /\ IsMutableView(d)
    /\ \E i \in DOMAIN tbls[d].path :
          tbls[d].path[i].id = t /\ ~tbls[d].path[i].is_snapshot

\* base columns the view's filter and its computed columns depend on
ViewRefs(d) ==
    PredRefs(tbls[d].predicate) \cup UNION {ColRefs(c) : c \in schema[d]}

\* a dependent is affected by an update of columns C of table t
AffectedAlsoPinned(d, t, C) == IsMutableView(d) /\ ViewRefs(d) \cap C # {}
Affected(d, t, C) == TracksLive(d, t) /\ ViewRefs(d) \cap C # {}

\* whether the cascade goes on to the dependents of view d
DescendIfAffected(d, t, C) == Affected(d, t, C)
Descend(d, t, C) == TRUE

\* the views visited by the cascade, depth-first along tbl_dependents
RECURSIVE Walk(_, _, _)
Walk(deps, t, C) ==
    IF deps = <<>> THEN <<>>
    ELSE LET d == Head(deps)
         IN  <<d>> \o (IF Descend(d, t, C) THEN Walk(tbl_dependents[d], t, C) ELSE <<>>)
                   \o Walk(Tail(deps), t, C)

CascadeOrder(t, C) == Walk(tbl_dependents[t], t, C)

\* store row of a view for rowid rid, computed from the base row the view's
\* base path sees
ViewRow(d, rid, vmin, cols, base, ver, st) ==
    [rid |-> rid, vmin |-> vmin, vmax |-> {},
     vals |-> [c \in cols |-> ColValue(c, RootVals(base, rid, ver, st))]]

\* rowids of a base path that pass a view's filter
Matching(base, pred, ver, st) ==
    {rid \in PathRids(base, ver, st) : PredHolds(pred, RootVals(base, rid, ver, st))}

\* ------------------------------------------------- TableVersion.insert
\* the new rows of its base that a view takes in: those passing its filter
ReceivedUnfiltered(base, pred, ver, st) == PathRids(base, ver, st)
Received(base, pred, ver, st) == Matching(base, pred, ver, st)

\* apply the insert of rowid rid to one dependent view
InsertIntoView(S, d, t, rid) ==
    LET base == Tail(tbls[d].path)
        nv == S.version[d] + 1
    IN  IF TracksLive(d, t) /\ rid \in Received(base, tbls[d].predicate, S.version, S.store)
        THEN [version |-> [S.version EXCEPT ![d] = nv],
              store |-> [S.store EXCEPT ![d] =
                  @ \cup {ViewRow(d, rid, nv, schema[d], base, S.version, S.store)}]]
        ELSE S

RECURSIVE InsertCascade(_, _, _, _)
InsertCascade(S, order, t, rid) ==
    IF order = <<>> THEN S
    ELSE InsertCascade(InsertIntoView(S, Head(order), t, rid), Tail(order), t, rid)

TableVersion_insert(t, vals) ==
    LET nv == version[t] + 1
        row == [rid |-> next_rowid, vmin |-> nv, vmax |-> {}, vals |-> vals]
        S0 == [version |-> [version EXCEPT ![t] = nv],
               store |-> [store EXCEPT ![t] = @ \cup {row}]]
    IN  InsertCascade(S0, CascadeOrder(t, {}), t, next_rowid)

\* ------------------------------------------------- TableVersion.update
\* the updated value of a cell (value_spec is col -> col + 1)
NewVals(vals, C) == [c \in BaseCols |-> IF c \in C THEN (vals[c] + 1) % 2 ELSE vals[c]]

\* re-derive the rows M of an affected view: the old row versions end at the
\* view's new version, the rows that pass the filter are stored anew
UpdateView(S, d, t, C, M) ==
    LET base == Tail(tbls[d].path)
        nv == S.version[d] + 1
        old == {r \in S.store[d] : Alive(r, S.version[d]) /\ r.rid \in M}
        closed == {[r EXCEPT !.vmax = {nv}] : r \in old}
        keep == M \cap Matching(base, tbls[d].predicate, S.version, S.store)
        fresh == {ViewRow(d, rid, nv, schema[d], base, S.version, S.store) : rid \in keep}
    IN  IF Affected(d, t, C)
        THEN [version |-> [S.version EXCEPT ![d] = nv],
              store |-> [S.store EXCEPT ![d] = ((@ \ old) \cup closed) \cup fresh]]
        ELSE S

RECURSIVE UpdateCascade(_, _, _, _, _)
UpdateCascade(S, order, t, C, M) ==
    IF order = <<>> THEN S
    ELSE UpdateCascade(UpdateView(S, Head(order), t, C, M), Tail(order), t, C, M)

\* the new row version of an updated base row
UpdatedRow(r, nv, C) == [rid |-> r.rid, vmin |-> nv, vmax |-> {}, vals |-> NewVals(r.vals, C)]

\* the old row version of an updated base row
ClosedRow(r, nv) == [r EXCEPT !.vmax = {nv}]

TableVersion_update(t, C, where, cascade) ==
    LET nv == version[t] + 1
        old == {r \in store[t] : Alive(r, version[t]) /\ PredHolds(where, r.vals)}
        M == {r.rid : r \in old}
        S0 == [version |-> [version EXCEPT ![t] = nv],
               store |-> [store EXCEPT ![t] =
                   ((@ \ old) \cup {ClosedRow(r, nv) : r \in old})
                       \cup {UpdatedRow(r, nv, C) : r \in old}]]
    IN  IF cascade THEN UpdateCascade(S0, CascadeOrder(t, C), t, C, M) ELSE S0

\* ------------------------------------------------- TableVersion.delete
\* a dependent view gets a new version iff it held a deleted row
DeleteTouchesAlways(gone) == TRUE
DeleteTouches(gone) == gone # {}

\* remove the deleted rowids M from one dependent view; Pre is the state
\* before the delete
DeleteFromView(S, Pre, d, t, M) ==
    LET nv == S.version[d] + 1
        gone == IF TracksLive(d, t)
                THEN M \cap PathRids(tbls[d].path, Pre.version, Pre.store)
                ELSE {}
        old == {r \in S.store[d] : Alive(r, S.version[d]) /\ r.rid \in gone}
    IN  IF DeleteTouches(gone)
        THEN [version |-> [S.version EXCEPT ![d] = nv],
              store |-> [S.store EXCEPT ![d] =
                  (@ \ old) \cup {ClosedRow(r, nv) : r \in old}]]
        ELSE S

RECURSIVE DeleteCascade(_, _, _, _, _)
DeleteCascade(S, Pre, order, t, M) ==
    IF order = <<>> THEN S
    ELSE DeleteCascade(DeleteFromView(S, Pre, Head(order), t, M), Pre, Tail(order), t, M)

\* a delete creates a new version of the table it is applied to
DeleteBumpsIfRows(M) == M # {}
DeleteBumps(M) == TRUE

\* delete the rows of the head TableVersion of a path that pass the where clause
TableVersion_delete(path, where) ==
    LET t == PathTblId(path)
        M == Matching(path, where, version, store)
        old == {r \in TvRows(path[1], version, store) : r.rid \in M}
        nv == IF DeleteBumps(M) THEN version[t] + 1 ELSE version[t]
        Pre == [version |-> version, store |-> store]
        S0 == [version |-> [version EXCEPT ![t] = nv],
               store |-> [store EXCEPT ![t] =
                   (@ \ old) \cup {ClosedRow(r, nv) : r \in old}]]
    IN  DeleteCascade(S0, Pre, CascadeOrder(t, {}), t, M)

\* ------------------------------------------------------------------ Init
TableHandle ==
    [kind |-> "table", name |-> "test_tbl", base_id |-> 0, snapshot_only |-> FALSE,
     path |-> <<LiveTv(1)>>, predicate |-> "none", is_snapshot |-> FALSE,
     base_versions |-> <<>>]

Init ==
    /\ tbls = (1 :> TableHandle)
    /\ tbl_dependents = (1 :> <<>>)
    /\ version = [i \in Ids |-> 0]
    /\ schema = [i \in Ids |-> {}]
    /\ store = [i \in Ids |-> {}]
    /\ next_id = 2
    /\ next_rowid = 1
    /\ _is_dropped = [i \in Ids |-> FALSE]
    /\ is_dropped = [i \in Ids |-> FALSE]
    /\ dropped_versions = {}
    /\ columns = [i \in Ids |-> <<>>]
    /\ dfs = <<>>
    /\ dataset_cache = {}
    /\ session = [pc |-> "idle"]
    /\ scan = [pc |-> "idle"]
    /\ last = [op |-> "init", ok |-> TRUE]

\* ------------------------------------------------------------- actions
AllBelowCap == \A i \in Ids : version[i] < MaxVersion

\* rows a caller may insert
InsertRows == {[c2 |-> 0, c3 |-> 0, c10 |-> 0], [c2 |-> 1, c3 |-> 1, c10 |-> 0]}

\* value specs of an update: the set of columns assigned (col -> col + 1)
UpdateSpecs == {{"c2"}, {"c3"}, {"c10"}}

\* clauses a DataFrame may carry besides its where clause
Clauses == {"none", "group_by", "order_by", "select", "limit"}

\* InsertableTable.insert on the base table
Table_insert(vals) ==
    /\ AllBelowCap
    /\ next_rowid <= MaxRows
    /\ LET S == TableVersion_insert(1, vals)
       IN  /\ version' = S.version
           /\ store' = S.store
    /\ next_rowid' = next_rowid + 1
    /\ last' = [op |-> "insert", ok |-> TRUE, rid |-> next_rowid]
    /\ UNCHANGED <<dataset_cache, session, scan, dfs, columns, _is_dropped, is_dropped, dropped_versions, tbls, tbl_dependents, schema, next_id>>

\* TableVersionPath.is_insertable(): only the path of a plain table is
PathIsInsertable(path) == Len(path) = 1 /\ ~path[1].is_snapshot

\* DataFrame._validate_mutable
ValidateMutable(clause) == clause = "none"

\* DataFrame.update on a DataFrame over the base table
DataFrame_update(clause, where, C, cascade) ==
    IF ~ValidateMutable(clause)
    THEN /\ last' = [op |-> "df_update", ok |-> FALSE, err |-> clause]
         /\ UNCHANGED <<dataset_cache, session, scan, dfs, columns, _is_dropped, is_dropped, dropped_versions, tbls, tbl_dependents, version, schema, store, next_id, next_rowid>>
    ELSE /\ AllBelowCap
         /\ LET S == TableVersion_update(1, C, where, cascade)
            IN  /\ version' = S.version
                /\ store' = S.store
         /\ last' = [op |-> "update", ok |-> TRUE, cols |-> C, where |-> where,
                     cascade |-> cascade]
         /\ UNCHANGED <<dataset_cache, session, scan, dfs, columns, _is_dropped, is_dropped, dropped_versions, tbls, tbl_dependents, schema, next_id, next_rowid>>

\* DataFrame.delete refuses a path that is not insertable
DeleteRejectedNever(path) == FALSE
DeleteRejected(path) == ~PathIsInsertable(path)

\* DataFrame.delete on a DataFrame over the path of catalog object id
DataFrame_delete(id, clause, where) ==
    IF ~ValidateMutable(clause)
    THEN /\ last' = [op |-> "df_delete", ok |-> FALSE, err |-> clause]
         /\ UNCHANGED <<dataset_cache, session, scan, dfs, columns, _is_dropped, is_dropped, dropped_versions, tbls, tbl_dependents, version, schema, store, next_id, next_rowid>>
    ELSE IF DeleteRejected(tbls[id].path)
    THEN /\ last' = [op |-> "df_delete", ok |-> FALSE, err |-> "Cannot delete from view"]
         /\ UNCHANGED <<dataset_cache, session, scan, dfs, columns, _is_dropped, is_dropped, dropped_versions, tbls, tbl_dependents, version, schema, store, next_id, next_rowid>>
    ELSE /\ AllBelowCap
         /\ LET S == TableVersion_delete(tbls[id].path, where)
            IN  /\ version' = S.version
                /\ store' = S.store
         /\ last' = [op |-> "delete", ok |-> TRUE, tbl |-> id, where |-> where]
         /\ UNCHANGED <<dataset_cache, session, scan, dfs, columns, _is_dropped, is_dropped, dropped_versions, tbls, tbl_dependents, schema, next_id, next_rowid>>

\* View.insert: always raises
View_insert(id) ==
    /\ tbls[id].kind = "view"
    /\ last' = [op |-> "view_insert", ok |-> FALSE, err |-> "cannot insert into view"]
    /\ UNCHANGED <<dataset_cache, session, scan, dfs, columns, _is_dropped, is_dropped, dropped_versions, tbls, tbl_dependents, version, schema, store, next_id, next_rowid>>

\* View.delete: always raises
View_delete(id) ==
    /\ tbls[id].kind = "view"
    /\ last' = [op |-> "view_delete", ok |-> FALSE, err |-> "cannot delete from view"]
    /\ UNCHANGED <<dataset_cache, session, scan, dfs, columns, _is_dropped, is_dropped, dropped_versions, tbls, tbl_dependents, version, schema, store, next_id, next_rowid>>

\* ---------------------------------------------------------- View._create
\* TableVersion.create_snapshot_copy(): pins the current version and columns
create_snapshot_copy(tv) == SnapTv(tv.id, version[tv.id], schema[tv.id])

\* View._get_snapshot_path
SnapshotPathHeadOnly(path) ==
    IF path[1].is_snapshot THEN path ELSE <<create_snapshot_copy(path[1])>> \o Tail(path)
SnapshotPathCopiesAll(path) == [i \in DOMAIN path |-> create_snapshot_copy(path[i])]
RECURSIVE View_get_snapshot_path(_)
View_get_snapshot_path(path) ==
    IF PathIsSnapshot(path) THEN path
    ELSE LET tv == IF ~path[1].is_snapshot THEN create_snapshot_copy(path[1]) ELSE path[1]
         IN  <<tv>> \o (IF Len(path) > 1 THEN View_get_snapshot_path(Tail(path)) ELSE <<>>)

\* the path the new view is built on
BaseVersionPathLive(base, is_snapshot) == base
BaseVersionPath(base, is_snapshot) ==
    IF is_snapshot THEN View_get_snapshot_path(base) ELSE base

\* view_md.base_versions: (id, pinned version or Null) per ancestor
BaseVersionsAllPinned(bvp, is_snapshot) ==
    [i \in DOMAIN bvp |-> <<bvp[i].id, EffVersion(bvp[i], version)>>]
BaseVersions(bvp, is_snapshot) ==
    [i \in DOMAIN bvp |->
        <<bvp[i].id,
          IF is_snapshot \/ bvp[i].is_snapshot
          THEN IF bvp[i].is_snapshot THEN bvp[i].version ELSE version[bvp[i].id]
          ELSE -1>>]

\* TableVersion.create makes no TableVersion for a pure snapshot: no filter, no
\* columns of its own, no iterator (an iterator prepends its columns)
IsSnapshotOnlyAnySnapshot(cols, predicate, is_snapshot, iterator) == is_snapshot
IsSnapshotOnly(cols, predicate, is_snapshot, iterator) ==
    is_snapshot /\ predicate = "none" /\ cols = {} /\ iterator = "none"

\* the rows the view load plan stores for a new view, stamped v_min
LoadRowsUnfiltered(id, cols, predicate, bvp, v_min) ==
    {ViewRow(id, rid, v_min, cols, bvp, version, store) :
        rid \in PathRids(bvp, version, store)}
LoadRows(id, cols, predicate, bvp, v_min) ==
    {ViewRow(id, rid, v_min, cols, bvp, version, store) :
        rid \in Matching(bvp, predicate, version, store)}

\* the id under which the new view is linked as a dependent
LinkIdDeclared(b, base) == b
LinkId(b, base) == PathTblId(base)

\* a column a caller may declare that is neither computed nor nullable
RequiredCols == {"n1"}

\* View._verify_column: non-computed columns of a view must be nullable
VerifyColumnRejectedNever(cols) == FALSE
VerifyColumnRejected(cols) == cols \cap RequiredCols # {}

\* two references to the same TableVersion: same table and same effective
\* version (none for a live version)
SameTv(a, b) ==
    /\ a.id = b.id
    /\ a.is_snapshot = b.is_snapshot
    /\ a.is_snapshot => a.version = b.version

\* Expr.is_bound_by(base), for an expression over the base-table columns refs
\* written with the columns of the handle whose path is src_path
IsBoundBy(refs, src_path, base) ==
    refs = {} \/ \E i \in DOMAIN base : SameTv(base[i], src_path[Len(src_path)])

\* the filter is rejected unless the base binds it
PredicateRejected(predicate, src_path, base) ==
    predicate # "none" /\ ~IsBoundBy(PredRefs(predicate), src_path, base)

\* a computed column is rejected unless the base binds its value expression
ColumnRejectedNever(cols, src_path, base) == FALSE
ColumnRejected(cols, src_path, base) ==
    \E c \in cols : ~IsBoundBy(ColRefs(c), src_path, base)

\* iterators a caller may pass: none, one whose arguments do not fit its
\* signature, one whose output schema has a column x3
Iterators == {"none", "bad_args", "dup_name"}

\* the iterator arguments cannot instantiate the iterator class
IteratorArgsRejected(iterator) == iterator = "bad_args"

\* a declared column is already present in the iterator output schema
IteratorNameRejected(iterator, cols) == iterator = "dup_name" /\ "x3" \in cols

\* the outcome of a View._create that raised: nothing is registered
CreateFailed(T, D, err) ==
    [ok |-> FALSE, err |-> err, id |-> 0, tbls |-> T, tbl_dependents |-> D,
     schema |-> schema, store |-> store, next_id |-> next_id]

\* View._create on the catalog (T, D): the outcome and the catalog, schema and
\* store it leaves; b is the handle the view is declared on, src the handle
\* whose columns the filter and the value expressions are written with
View_create_result(T, D, name, b, src, cols, predicate, is_snapshot, iterator) ==
    LET base == tbls[b].path
        src_path == tbls[src].path
        id == next_id
        bvp == BaseVersionPath(base, is_snapshot)
        snapshot_only == IsSnapshotOnly(cols, predicate, is_snapshot, iterator)
        tv == IF is_snapshot THEN SnapTv(id, 0, cols) ELSE LiveTv(id)
        view == [kind |-> "view", name |-> name, base_id |-> PathTblId(base),
                 snapshot_only |-> snapshot_only,
                 path |-> IF snapshot_only THEN bvp ELSE <<tv>> \o bvp,
                 predicate |-> predicate, is_snapshot |-> is_snapshot,
                 base_versions |-> BaseVersions(bvp, is_snapshot)]
        deps == [i \in DOMAIN D \cup {id} |-> IF i = id THEN <<>> ELSE D[i]]
    IN  CASE cols \cap PathCols(base, schema) # {} ->
                CreateFailed(T, D, "already exists")
          [] OTHER ->
        CASE VerifyColumnRejected(cols) ->
                CreateFailed(T, D, "non-computed columns in views must be nullable")
          [] OTHER ->
        CASE PredicateRejected(predicate, src_path, base) ->
                CreateFailed(T, D, "Filter cannot be computed in the context of the base")
          [] OTHER ->
        CASE ColumnRejected(cols, src_path, base) ->
                CreateFailed(T, D, "value expression cannot be computed in the context of the base")
          [] OTHER ->
        CASE IteratorArgsRejected(iterator) ->
                CreateFailed(T, D, "Cannot instantiate iterator with given arguments")
          [] OTHER ->
        CASE IteratorNameRejected(iterator, cols) ->
                CreateFailed(T, D, "Duplicate name")
          [] OTHER ->
        CASE PathTblId(base) \notin DOMAIN D ->
                CreateFailed(T, D, "assert base_id in tbl_dependents")
          [] OTHER ->
                [ok |-> TRUE, err |-> "", id |-> id,
                 tbls |-> [i \in DOMAIN T \cup {id} |-> IF i = id THEN view ELSE T[i]],
                 tbl_dependents |-> [deps EXCEPT ![LinkId(b, base)] = Append(@, id)],
                 schema |-> IF snapshot_only THEN schema ELSE [schema EXCEPT ![id] = cols],
                 store |-> IF snapshot_only THEN store
                           ELSE [store EXCEPT ![id] = LoadRows(id, cols, predicate, bvp, 0)],
                 next_id |-> id + 1]

\* View._create of a view under a name of its own, with a filter and value
\* expressions written with the columns of the base
View_create(b, cols, predicate, is_snapshot) ==
    /\ next_id <= MaxViews + 1
    /\ b \in DOMAIN tbls
    /\ LET R == View_create_result(tbls, tbl_dependents, ToString(next_id), b, b, cols,
                                   predicate, is_snapshot, "none")
       IN  /\ tbls' = R.tbls
           /\ tbl_dependents' = R.tbl_dependents
           /\ schema' = R.schema
           /\ store' = R.store
           /\ next_id' = R.next_id
           /\ last' = IF R.ok
                      THEN [op |-> "create_view", ok |-> TRUE, id |-> R.id, base |-> b]
                      ELSE [op |-> "create_view", ok |-> FALSE, err |-> R.err]
    /\ UNCHANGED <<dataset_cache, session, scan, dfs, columns, version, next_rowid, _is_dropped, is_dropped, dropped_versions>>

\* View._create of a view or a component view (a view with an iterator, here
\* one that yields one item per row of the base), however long the chain of
\* bases
View_create_iter(b, cols, predicate, is_snapshot, iterator) ==
    /\ next_id \in Ids
    /\ b \in DOMAIN tbls
    /\ LET R == View_create_result(tbls, tbl_dependents, ToString(next_id), b, b, cols,
                                   predicate, is_snapshot, iterator)
       IN  /\ tbls' = R.tbls
           /\ tbl_dependents' = R.tbl_dependents
           /\ schema' = R.schema
           /\ store' = R.store
           /\ next_id' = R.next_id
           /\ last' = [op |-> "View._create", ok |-> R.ok, err |-> R.err, id |-> R.id,
                       base |-> b, base_path |-> tbls[b].path, cols |-> cols,
                       predicate |-> predicate, is_snapshot |-> is_snapshot,
                       iterator |-> iterator, version |-> version]
    /\ UNCHANGED <<dataset_cache, session, scan, dfs, columns, version, next_rowid, _is_dropped, is_dropped, dropped_versions>>

\* the statements that end View._create, in the order they run: the commit
\* of the session, then the three updates of the Catalog
StatementOrderCommitLast == <<"set_dependents", "link", "register", "commit">>
StatementOrder == <<"commit", "set_dependents", "link", "register">>

\* View._create up to the end of the writes under the session: the checks,
\* TableVersion.create and the rows of the load plan, not yet committed
View_create_begin(b, cols, predicate, is_snapshot) ==
    /\ session.pc = "idle"
    /\ next_id <= MaxViews + 1
    /\ b \in DOMAIN tbls
    /\ LET R == View_create_result(tbls, tbl_dependents, ToString(next_id), b, b, cols,
                                   predicate, is_snapshot, "none")
       IN  /\ session' = IF R.ok
                         THEN [pc |-> "in_session", at |-> 1, committed |-> FALSE,
                               id |-> R.id, base |-> b,
                               base_id |-> PathTblId(tbls[b].path), R |-> R]
                         ELSE session
           /\ last' = IF R.ok
                      THEN [op |-> "View._create begin", ok |-> TRUE, id |-> R.id, base |-> b]
                      ELSE [op |-> "create_view", ok |-> FALSE, err |-> R.err]
    /\ UNCHANGED <<dataset_cache, scan, dfs, columns, tbls, tbl_dependents, version, schema,
                   store, next_id, next_rowid, _is_dropped, is_dropped, dropped_versions>>

\* the next statement of the View._create under way; the last one returns
View_create_step ==
    /\ session.pc = "in_session"
    /\ LET stmt == StatementOrder[session.at]
           id == session.id
           R == session.R
           returns == session.at = Len(StatementOrder)
       IN  /\ IF stmt = "commit"
              THEN /\ store' = R.store
                   /\ schema' = R.schema
                   /\ next_id' = R.next_id
              ELSE UNCHANGED <<store, schema, next_id>>
           /\ tbl_dependents' =
                 CASE stmt = "set_dependents" ->
                        [i \in DOMAIN tbl_dependents \cup {id} |->
                            IF i = id THEN <<>> ELSE tbl_dependents[i]]
                   [] stmt = "link" ->
                        [tbl_dependents EXCEPT ![session.base_id] = Append(@, id)]
                   [] OTHER -> tbl_dependents
           /\ tbls' = IF stmt = "register"
                      THEN [i \in DOMAIN tbls \cup {id} |-> IF i = id THEN R.tbls[id] ELSE tbls[i]]
                      ELSE tbls
           /\ session' = IF returns THEN [pc |-> "idle"]
                         ELSE [session EXCEPT !.at = @ + 1,
                                              !.committed = @ \/ stmt = "commit"]
           /\ last' = IF returns
                      THEN [op |-> "create_view", ok |-> TRUE, id |-> id, base |-> session.base]
                      ELSE [op |-> "View._create " \o stmt, ok |-> TRUE, id |-> id,
                            base |-> session.base]
    /\ UNCHANGED <<dataset_cache, scan, dfs, columns, version, next_rowid, _is_dropped,
                   is_dropped, dropped_versions>>

\* Table.add_column of a computed column on a (mutable) view
ColumnValueOrNull(d, r, c) ==
    LET base == Tail(tbls[d].path)
    IN  IF Alive(r, version[d]) /\ r.rid \in PathRids(base, version, store)
        THEN ColValue(c, RootVals(base, r.rid, version, store))
        ELSE -1

View_add_column(d, c) ==
    /\ AllBelowCap
    /\ d \in DOMAIN tbls
    /\ IsMutableView(d)
    /\ c \notin PathCols(tbls[d].path, schema)
    /\ version' = [version EXCEPT ![d] = @ + 1]
    /\ schema' = [schema EXCEPT ![d] = @ \cup {c}]
    /\ store' = [store EXCEPT ![d] =
                    {[r EXCEPT !.vals = [k \in schema[d] \cup {c} |->
                          IF k = c THEN ColumnValueOrNull(d, r, c) ELSE r.vals[k]]] : r \in @}]
    /\ last' = [op |-> "add_column", ok |-> TRUE, id |-> d, col |-> c]
    /\ UNCHANGED <<dataset_cache, session, scan, dfs, columns, _is_dropped, is_dropped, dropped_versions, tbls, tbl_dependents, next_id, next_rowid>>

\* ------------------------------------------------------------------ drop
\* the catalog and the handle attributes a drop works on; order lists the
\* objects dropped so far, returned the object handed back to the caller
Cat ==
    [ok |-> TRUE, err |-> "", tbls |-> tbls, tbl_dependents |-> tbl_dependents,
     _is_dropped |-> _is_dropped, is_dropped |-> is_dropped,
     dropped_versions |-> dropped_versions, order |-> <<>>, returned |-> {}]

\* del d[k]
RemoveKey(f, k) == [i \in DOMAIN f \ {k} |-> f[i]]

\* list.remove(x): removes the first occurrence of x
ListRemoveKeeps(seq, x) == seq
ListRemove(seq, x) ==
    LET at == CHOOSE i \in DOMAIN seq : seq[i] = x /\ \A j \in 1..(i - 1) : seq[j] # x
    IN  SubSeq(seq, 1, at - 1) \o SubSeq(seq, at + 1, Len(seq))

\* an operation on the catalog that raised
Raised(C, err) == [C EXCEPT !.ok = FALSE, !.err = err]

\* the generic Table._drop of handle id: drops the TableVersion of the handle,
\* marks the handle dropped and removes it from Catalog.tbls
Table_drop(C, id) ==
    IF C._is_dropped[id] THEN Raised(C, "has been dropped")
    ELSE [C EXCEPT !.dropped_versions = @ \cup {PathTblId(C.tbls[id].path)},
                   !._is_dropped = [@ EXCEPT ![id] = TRUE],
                   !.tbls = RemoveKey(@, id),
                   !.order = Append(@, id)]

\* View._drop: every entry of the view's own dependents list is dropped
DependentsDroppedAlways(C, id) == TRUE
DependentsDropped(C, id) ==
    \A i \in DOMAIN C.tbl_dependents[id] : C._is_dropped[C.tbl_dependents[id][i]]

\* View._drop: a view without a TableVersion of its own only loses its metadata
DropsMetadataOnlyNever(self) == FALSE
DropsMetadataOnly(self) == self.snapshot_only

\* View._drop of a view without a TableVersion of its own: sets the attribute
\* is_dropped of the handle and removes the handle from Catalog.tbls
SnapshotOnly_drop(C, id) ==
    IF C._is_dropped[id] THEN Raised(C, "has been dropped")
    ELSE [C EXCEPT !.is_dropped = [@ EXCEPT ![id] = TRUE],
                   !.tbls = RemoveKey(@, id),
                   !.order = Append(@, id)]

\* the list the dropped view is removed from
UnlinkFrom(self) == self.base_id

\* View._drop of handle id
View_drop_result(C, id) ==
    IF ~C.ok THEN C
    ELSE IF id \notin DOMAIN C.tbl_dependents THEN Raised(C, "KeyError")
    ELSE IF ~DependentsDropped(C, id) THEN Raised(C, "AssertionError")
    ELSE LET self == C.tbls[id]
             C1 == IF DropsMetadataOnly(self) THEN SnapshotOnly_drop(C, id)
                   ELSE Table_drop(C, id)
             from == UnlinkFrom(self)
         IN  IF ~C1.ok THEN C1
             ELSE IF from \notin DOMAIN C1.tbl_dependents THEN Raised(C1, "KeyError")
             ELSE IF \A i \in DOMAIN C1.tbl_dependents[from] : C1.tbl_dependents[from][i] # id
             THEN Raised(C1, "ValueError")
             ELSE [C1 EXCEPT !.tbl_dependents =
                      RemoveKey([@ EXCEPT ![from] = ListRemove(@, id)], id)]

\* drop_table: fails on an object with dependents unless forced; when forced
\* drops the dependents first, each with its own dependents
RECURSIVE DropTable(_, _, _)
RECURSIVE DropAll(_, _)
DropAll(C, deps) ==
    IF deps = <<>> THEN C ELSE DropAll(DropTable(C, Head(deps), TRUE), Tail(deps))

DropTable(C, id, force) ==
    IF ~C.ok THEN C
    ELSE IF C.tbl_dependents[id] # <<>> /\ ~force THEN Raised(C, "has dependents")
    ELSE LET C1 == DropAll(C, C.tbl_dependents[id])
         IN  IF ~C1.ok THEN C1
             ELSE IF C1.tbls[id].kind = "view" THEN View_drop_result(C1, id)
             ELSE [Table_drop(C1, id) EXCEPT !.tbl_dependents = RemoveKey(@, id)]

\* the object a catalog path names, if any
Existing(name) == {i \in DOMAIN tbls : tbls[i].name = name}

\* ids handed out to views so far
Created == {i \in Ids : 1 < i /\ i < next_id}

\* drop_table(name, force)
drop_table(name, force) ==
    /\ Existing(name) # {}
    /\ LET e == CHOOSE i \in Existing(name) : TRUE
           C == DropTable(Cat, e, force)
       IN  /\ tbls' = C.tbls
           /\ tbl_dependents' = C.tbl_dependents
           /\ _is_dropped' = C._is_dropped
           /\ is_dropped' = C.is_dropped
           /\ dropped_versions' = C.dropped_versions
           /\ last' = [op |-> "drop_table", ok |-> C.ok, err |-> C.err, id |-> e,
                       force |-> force, dropped |-> C.order]
    /\ UNCHANGED <<dataset_cache, session, scan, dfs, columns, version, schema, store, next_id, next_rowid>>

\* View._drop called on the handle of view id, live or already dropped
View_drop(id) ==
    /\ id \in Created
    /\ LET C == View_drop_result(Cat, id)
       IN  /\ tbls' = C.tbls
           /\ tbl_dependents' = C.tbl_dependents
           /\ _is_dropped' = C._is_dropped
           /\ is_dropped' = C.is_dropped
           /\ dropped_versions' = C.dropped_versions
           /\ last' = [op |-> "View._drop", ok |-> C.ok, err |-> C.err, id |-> id,
                       force |-> FALSE, dropped |-> C.order]
    /\ UNCHANGED <<dataset_cache, session, scan, dfs, columns, version, schema, store, next_id, next_rowid>>

\* ------------------------------------------------------------ create_view
\* the if_exists policies of create_view
IfExists == {"error", "ignore", "replace", "replace_force"}

\* 'ignore' hands the existing view back
PolicyKeepsNever(if_exists) == FALSE
PolicyKeeps(if_exists) == if_exists = "ignore"

\* 'replace' does not drop a view that has dependents
ReplaceBlockedNever(if_exists, deps) == FALSE
ReplaceBlocked(if_exists, deps) == if_exists = "replace" /\ deps # <<>>

\* no policy replaces an object that is not a view
NotAViewNever(obj) == FALSE
NotAView(obj) == obj.kind # "view"

\* what create_view does about the object that holds the name already: fails,
\* hands it back, or drops it (with its dependents when forced)
HandlePathCollision(name, if_exists) ==
    IF Existing(name) = {} THEN Cat
    ELSE LET e == CHOOSE i \in Existing(name) : TRUE
         IN  IF if_exists = "error" THEN Raised(Cat, "already exists")
             ELSE IF NotAView(tbls[e])
             THEN Raised(Cat, "already exists but is not a view")
             ELSE IF PolicyKeeps(if_exists) THEN [Cat EXCEPT !.returned = {e}]
             ELSE IF ReplaceBlocked(if_exists, tbl_dependents[e])
             THEN Raised(Cat, "already exists and has dependents, use replace_force")
             ELSE DropTable(Cat, e, if_exists = "replace_force")

\* create_view(name, base, ..., if_exists): resolves the name, then View._create
create_view(name, b, src, cols, predicate, is_snapshot, iterator, if_exists) ==
    /\ next_id \in Ids
    /\ b \in DOMAIN tbls /\ src \in DOMAIN tbls
    /\ LET C == HandlePathCollision(name, if_exists)
           entered == C.ok /\ C.returned = {}
           R == IF entered
                THEN View_create_result(C.tbls, C.tbl_dependents, name, b, src, cols,
                                        predicate, is_snapshot, iterator)
                ELSE CreateFailed(C.tbls, C.tbl_dependents, C.err)
       IN  /\ entered => Cardinality(DOMAIN C.tbls \ {1}) < MaxViews
           /\ tbls' = R.tbls
           /\ tbl_dependents' = R.tbl_dependents
           /\ schema' = R.schema
           /\ store' = R.store
           /\ next_id' = R.next_id
           /\ _is_dropped' = C._is_dropped
           /\ is_dropped' = C.is_dropped
           /\ dropped_versions' = C.dropped_versions
           /\ last' = [op |-> "pxt.create_view",
                       ok |-> IF entered THEN R.ok ELSE C.ok,
                       err |-> R.err,
                       returned |-> IF entered /\ R.ok THEN {R.id} ELSE C.returned,
                       name |-> name, if_exists |-> if_exists,
                       existing |-> Existing(name), dropped |-> C.order,
                       entered |-> entered, base |-> b, src |-> src, cols |-> cols,
                       predicate |-> predicate, is_snapshot |-> is_snapshot,
                       iterator |-> iterator]
    /\ UNCHANGED <<dataset_cache, session, scan, dfs, columns, version, next_rowid>>

\* ------------------------------------------------------------ add_columns
\* names of a list of Column objects
ColumnNames(cols) == {cols[i].name : i \in DOMAIN cols}

\* v.columns: every column a view exposes, its own and those of its bases
VisibleCols(d) ==
    PathCols(tbls[d].path, schema)
        \cup UNION {ColumnNames(columns[i]) : i \in PathIds(tbls[d].path)}

\* the columns that belong to the view itself
OwnedCols(d) == schema[d] \cup ColumnNames(columns[d])

\* an existing column that the view does not own belongs to one of its bases
IsBaseColumnNever(d, name) == FALSE
IsBaseColumn(d, name) == name \notin OwnedCols(d)

\* some other column is computed from column name of view d
HasDependents(d, name) ==
    \E i \in DOMAIN tbls :
        /\ d \in PathIds(tbls[i].path)
        /\ \E k \in DOMAIN columns[i] : name \in columns[i][k].refs

\* the if_exists policy applied to one column of the call
AddColumnError(d, name, if_exists) ==
    CASE name \notin VisibleCols(d) -> ""
      [] if_exists = "error" -> "duplicate column name"
      [] if_exists = "ignore" -> ""
      [] IsBaseColumn(d, name) -> "is a base table column. cannot replace it"
      [] HasDependents(d, name) -> "already exists and has dependents"
      [] OTHER -> ""

\* the columns of a call that are validated before anything is applied
CheckedEntriesFirst(call) == {1}
CheckedEntries(call) == DOMAIN call

\* the first error of the call, "" if there is none
AddColumnsError(d, call, if_exists) ==
    LET bad == {i \in CheckedEntries(call) :
                    AddColumnError(d, call[i].name, if_exists) # ""}
    IN  CASE if_exists \notin IfExists -> "if_exists must be one of"
          [] bad = {} -> ""
          [] OTHER -> AddColumnError(
                         d, call[CHOOSE i \in bad : \A j \in bad : i <= j].name, if_exists)

\* the columns of a list without those named in names
DropColumns(cols, names) == SelectSeq(cols, LAMBDA c : c.name \notin names)

\* the columns of the call that are added: under 'ignore' the existing ones
\* are left out
ColsToAdd(d, call, if_exists) ==
    IF if_exists = "ignore"
    THEN SelectSeq(call, LAMBDA c : c.name \notin VisibleCols(d))
    ELSE call

\* Table.add_columns / add_column / add_computed_column on a view
add_columns(d, call, if_exists) ==
    LET err == AddColumnsError(d, call, if_exists)
        new == ColsToAdd(d, call, if_exists)
        replaced == IF if_exists \in {"replace", "replace_force"}
                    THEN ColumnNames(call) \cap VisibleCols(d)
                    ELSE {}
        changes == err = "" /\ Len(new) > 0
    IN  /\ d \in DOMAIN tbls
        /\ IsMutableView(d)
        /\ \A i, j \in DOMAIN call : call[i].name = call[j].name => i = j
        /\ \A i \in DOMAIN call :
              /\ call[i].refs \subseteq VisibleCols(d)
              /\ call[i].refs \cap ColumnNames(call) = {}
        /\ changes => version[d] < MaxVersion
        /\ columns' = IF changes
                      THEN [columns EXCEPT ![d] = DropColumns(@, replaced) \o new]
                      ELSE columns
        /\ schema' = IF changes
                     THEN [schema EXCEPT ![d] = @ \ replaced]
                     ELSE schema
        /\ store' = IF changes
                    THEN [store EXCEPT ![d] =
                            {[r EXCEPT !.vals = [k \in schema[d] \ replaced |-> r.vals[k]]] : r \in @}]
                    ELSE store
        /\ version' = IF changes THEN [version EXCEPT ![d] = @ + 1] ELSE version
        /\ last' = [op |-> "add_columns", ok |-> err = "", err |-> err, id |-> d,
                    call |-> call, if_exists |-> if_exists,
                    existing |-> ColumnNames(call) \cap VisibleCols(d),
                    base |-> {n \in ColumnNames(call) \cap VisibleCols(d) : n \notin OwnedCols(d)},
                    dependents |-> {n \in ColumnNames(call) : HasDependents(d, n)}]
        /\ UNCHANGED <<dataset_cache, session, scan, dfs, tbls, tbl_dependents, next_id, next_rowid, _is_dropped,
                       is_dropped, dropped_versions>>

\* ------------------------------------------------------------- DataFrame
\* an optional value is a set with at most one element: None is {}
None == {}
Some(x) == {x}
The(opt) == CHOOSE x \in opt : TRUE

\* expressions in prefix form: a sequence of nodes (op, a, b); a column
\* reference carries the column name, a literal its value, a variable its
\* name, and each of them its type in b; an operator node is followed by
\* its two operands
ColumnRef(c) == <<[op |-> "col", a |-> c, b |-> "int"]>>
Literal(v, type) == <<[op |-> "lit", a |-> v, b |-> type]>>
Variable(name, type) == <<[op |-> "var", a |-> name, b |-> type]>>
BinaryOp(o, l, r) == <<[op |-> o, a |-> "", b |-> "bool"]>> \o l \o r

\* Expr.col_type: the type of the root node
col_type(e) == e[1].b

\* Expr.default_column_name(): the column's name for a column reference,
\* None for every other expression
default_column_name(e) ==
    IF Len(e) = 1 /\ e[1].op = "col" THEN Some(e[1].a) ELSE None

\* Expr.list_subexprs(exprs, expr_class=Variable): the Variable nodes of a
\* list of expressions, in order
RECURSIVE list_subexprs(_)
list_subexprs(es) ==
    IF es = <<>> THEN <<>>
    ELSE SelectSeq(Head(es), LAMBDA n : n.op = "var") \o list_subexprs(Tail(es))

\* f'{default_name}_{j}' and f'col_{i}'
Suffixed(default_name, j) == default_name \o "_" \o ToString(j)
PositionName(i) == "col_" \o ToString(i)

\* the suffix loop of _normalize_select_list: the first j in
\* 1..len(out_names) whose name is free; the last name tried if none is
FirstFreeSuffixOne(default_name, out_names) == Suffixed(default_name, 1)
FirstFreeSuffix(default_name, out_names) ==
    LET seen == {out_names[k] : k \in DOMAIN out_names}
        free == {j \in 1..Len(out_names) : Suffixed(default_name, j) \notin seen}
    IN  IF free = {}
        THEN Suffixed(default_name, Len(out_names))
        ELSE Suffixed(default_name, CHOOSE j \in free : \A k \in free : j <= k)

\* the output name of entry ent at position i (from 0), after out_names
ColumnName(ent, i, out_names) ==
    LET seen == {out_names[k] : k \in DOMAIN out_names}
        default_name == default_column_name(ent.expr)
    IN  CASE ent.name # None -> The(ent.name)
          [] default_name = None -> PositionName(i)
          [] The(default_name) \in seen -> FirstFreeSuffix(The(default_name), out_names)
          [] OTHER -> The(default_name)

\* the names _normalize_select_list gives to an expanded select list
RECURSIVE OutNames(_)
OutNames(select_list) ==
    IF select_list = <<>> THEN <<>>
    ELSE LET n == Len(select_list)
             out_names == OutNames(SubSeq(select_list, 1, n - 1))
         IN  Append(out_names, ColumnName(select_list[n], n - 1, out_names))

\* tbl.columns(): the columns of a path, in a fixed order
RECURSIVE SeqOfSet(_)
SeqOfSet(S) ==
    IF S = {} THEN <<>>
    ELSE LET x == CHOOSE y \in S : TRUE IN <<x>> \o SeqOfSet(S \ {x})

PathColumns(tbl) == SeqOfSet(PathCols(tbl, schema))

\* _normalize_select_list: None expands to all the columns of the path
ExpandedSelectList(tbl, select_list) ==
    IF select_list = None
    THEN [i \in DOMAIN PathColumns(tbl) |->
             [expr |-> ColumnRef(PathColumns(tbl)[i]), name |-> None]]
    ELSE The(select_list)

\* DataFrame.__init__: the fields of a new DataFrame object
DataFrame(tbl, select_list, where_clause, group_by_clause, grouping_tbl, order_by_clause, limit) ==
    LET expanded == ExpandedSelectList(tbl, select_list)
    IN  [tbl |-> tbl,
         select_list |-> select_list,
         _select_list_exprs |-> [i \in DOMAIN expanded |-> expanded[i].expr],
         _schema |-> OutNames(expanded),
         where_clause |-> where_clause,
         group_by_clause |-> group_by_clause,
         grouping_tbl |-> grouping_tbl,
         order_by_clause |-> order_by_clause,
         limit_val |-> limit]

\* the assertion of DataFrame.__init__ on its arguments
InitAsserts(group_by_clause, grouping_tbl) ==
    group_by_clause = None \/ grouping_tbl = None

\* arguments of the builder calls: an expression, a catalog table, or any
\* other Python object (for select: the literal it is wrapped into)
ExprItem(e) == [kind |-> "expr", tbl |-> {}, expr |-> e]
TableItem(id) == [kind |-> "table", tbl |-> {id}, expr |-> <<>>]
OtherItem(e) == [kind |-> "other", tbl |-> {}, expr |-> e]

\* is_valid_identifier on the names the callers use
Identifiers == {"c2", "c3", "c2_1", "col_0", "col_1", "n"}
is_valid_identifier(name) == name \in Identifiers

\* outcome of a builder call: an error, the receiver itself, or a new object
Failed(err) == [ok |-> FALSE, err |-> err, returns_self |-> FALSE, df |-> None]
ReturnsSelf == [ok |-> TRUE, err |-> "", returns_self |-> TRUE, df |-> None]
Returns(df) ==
    IF InitAsserts(df.group_by_clause, df.grouping_tbl)
    THEN [ok |-> TRUE, err |-> "", returns_self |-> FALSE, df |-> Some(df)]
    ELSE Failed("AssertionError")

\* 'Select list already specified'
SelectListSetNever(self) == FALSE
SelectListSet(self) == self.select_list # None

\* a name occurs twice in the output names
HasRepeated(names) == \E i, j \in DOMAIN names : i < j /\ names[i] = names[j]

\* DataFrame.select(*items, **named_items)
select_result(self, items, named_items) ==
    LET base_list ==
            [i \in DOMAIN items |-> [expr |-> items[i].expr, name |-> None]]
            \o [i \in DOMAIN named_items |->
                    [expr |-> named_items[i].item.expr, name |-> Some(named_items[i].name)]]
    IN  CASE SelectListSet(self) -> Failed("Select list already specified")
          [] \E i \in DOMAIN named_items : ~is_valid_identifier(named_items[i].name) ->
                Failed("Invalid name")
          [] Len(base_list) = 0 -> ReturnsSelf
          [] \E i \in DOMAIN base_list : col_type(base_list[i].expr) = "invalid" ->
                Failed("Invalid type")
          [] HasRepeated(OutNames(base_list)) -> Failed("Repeated column name")
          [] OTHER ->
                Returns(DataFrame(self.tbl, Some(base_list), self.where_clause,
                                  self.group_by_clause, self.grouping_tbl,
                                  self.order_by_clause, self.limit_val))

\* DataFrame.where(pred)
where_result(self, pred) ==
    CASE pred.kind # "expr" -> Failed("Where() requires a Pixeltable expression")
      [] col_type(pred.expr) # "bool" -> Failed("Where(): expression needs to return bool")
      [] OTHER ->
            Returns(DataFrame(self.tbl, self.select_list, Some(pred.expr),
                              self.group_by_clause, self.grouping_tbl,
                              self.order_by_clause, self.limit_val))

\* TableVersionPath.find_tbl_version(id): the TableVersion of the path with
\* that table id, None if there is none
find_tbl_version(path, id) ==
    LET at == {i \in DOMAIN path : path[i].id = id}
    IN  IF at = {} THEN None ELSE Some(path[CHOOSE i \in at : \A j \in at : i <= j])

\* the table given to group_by is not a base of the queried path
NotABaseOrSelf(self, item) ==
    find_tbl_version(self.tbl, PathTblId(tbls[The(item.tbl)].path)) = None
NotABase(self, item) ==
    LET base == find_tbl_version(self.tbl, PathTblId(tbls[The(item.tbl)].path))
    IN  base = None \/ The(base).id = PathTblId(self.tbl)

\* the error the loop over the grouping items raises at item i, "" if none
GroupingItemError(self, grouping_items, i) ==
    LET item == grouping_items[i]
    IN  CASE item.kind = "table" /\ Len(grouping_items) > 1 ->
                "group_by(): only one table can be specified"
          [] item.kind = "table" /\ NotABase(self, item) -> "is not a base table of"
          [] item.kind = "other" -> "Invalid expression in group_by()"
          [] OTHER -> ""

\* DataFrame.group_by(*grouping_items)
group_by_result(self, grouping_items) ==
    LET bad == {i \in DOMAIN grouping_items :
                    GroupingItemError(self, grouping_items, i) # ""}
        tables == {i \in DOMAIN grouping_items : grouping_items[i].kind = "table"}
    IN  CASE self.group_by_clause # None -> Failed("Group-by already specified")
          [] bad # {} ->
                Failed(GroupingItemError(self, grouping_items,
                                         CHOOSE i \in bad : \A j \in bad : i <= j))
          [] tables # {} ->
                Returns(DataFrame(self.tbl, self.select_list, self.where_clause, None,
                                  Some(tbls[The(grouping_items[1].tbl)].path[1]),
                                  self.order_by_clause, self.limit_val))
          [] OTHER ->
                Returns(DataFrame(self.tbl, self.select_list, self.where_clause,
                                  Some([i \in DOMAIN grouping_items |-> grouping_items[i].expr]),
                                  None, self.order_by_clause, self.limit_val))

\* the list order_by extends: the receiver's own list object when it has one
OrderByList(self) ==
    IF self.order_by_clause # None THEN The(self.order_by_clause) ELSE <<>>

\* order_by_clause.extend([(e.copy(), asc) for e in expr_list])
ExtendedDropsOld(self, expr_list, asc) ==
    [i \in DOMAIN expr_list |-> [expr |-> expr_list[i].expr, asc |-> asc]]
Extended(self, expr_list, asc) ==
    OrderByList(self)
        \o [i \in DOMAIN expr_list |-> [expr |-> expr_list[i].expr, asc |-> asc]]

\* the receiver after order_by: extend() works on its own list in place
ReceiverAfterOrderBy(self, expr_list, asc) ==
    IF self.order_by_clause # None
    THEN [self EXCEPT !.order_by_clause = Some(Extended(self, expr_list, asc))]
    ELSE self

\* DataFrame.order_by(*expr_list, asc)
order_by_result(self, expr_list, asc) ==
    IF \E i \in DOMAIN expr_list : expr_list[i].kind # "expr"
    THEN Failed("Invalid expression in order_by()")
    ELSE Returns(DataFrame(self.tbl, self.select_list, self.where_clause,
                           self.group_by_clause, self.grouping_tbl,
                           Some(Extended(self, expr_list, asc)), self.limit_val))

\* DataFrame.limit(n)
limit_result(self, n) ==
    Returns(DataFrame(self.tbl, self.select_list, self.where_clause,
                      self.group_by_clause, self.grouping_tbl,
                      self.order_by_clause, Some(n)))

\* a builder call on DataFrame object d: the receiver as the call leaves it,
\* the object it returns (a new one is appended to dfs), and the record of
\* the call
BuilderCall(op, d, R, self_after, args) ==
    /\ dfs' = IF R.df # None
              THEN Append([dfs EXCEPT ![d] = self_after], The(R.df))
              ELSE [dfs EXCEPT ![d] = self_after]
    /\ last' = [op |-> op, ok |-> R.ok, err |-> R.err, self |-> d, before |-> dfs[d],
                returned |-> CASE R.returns_self -> {d}
                               [] R.df # None -> {Len(dfs) + 1}
                               [] OTHER -> {},
                args |-> args]
    /\ UNCHANGED <<dataset_cache, session, scan, tbls, tbl_dependents, version, schema, store, next_id, next_rowid,
                   _is_dropped, is_dropped, dropped_versions, columns>>

\* the DataFrame a table or view starts its builder calls from
Table_df(id) ==
    /\ id \in DOMAIN tbls
    /\ Len(dfs) < MaxDFs
    /\ dfs' = Append(dfs, DataFrame(tbls[id].path, None, None, None, None, None, None))
    /\ last' = [op |-> "_df", ok |-> TRUE, err |-> "", returned |-> {Len(dfs) + 1}]
    /\ UNCHANGED <<dataset_cache, session, scan, tbls, tbl_dependents, version, schema, store, next_id, next_rowid,
                   _is_dropped, is_dropped, dropped_versions, columns>>

DataFrame_select(d, items, named_items) ==
    /\ d \in DOMAIN dfs
    /\ Len(dfs) < MaxDFs
    /\ BuilderCall("select", d, select_result(dfs[d], items, named_items), dfs[d],
                   [items |-> items, named_items |-> named_items])

DataFrame_where(d, pred) ==
    /\ d \in DOMAIN dfs
    /\ Len(dfs) < MaxDFs
    /\ BuilderCall("where", d, where_result(dfs[d], pred), dfs[d], [pred |-> pred])

DataFrame_group_by(d, grouping_items) ==
    /\ d \in DOMAIN dfs
    /\ Len(dfs) < MaxDFs
    /\ \A i \in DOMAIN grouping_items :
          grouping_items[i].tbl \subseteq DOMAIN tbls
    /\ BuilderCall("group_by", d, group_by_result(dfs[d], grouping_items), dfs[d],
                   [grouping_items |-> grouping_items])

DataFrame_order_by(d, expr_list, asc) ==
    /\ d \in DOMAIN dfs
    /\ Len(dfs) < MaxDFs
    /\ LET R == order_by_result(dfs[d], expr_list, asc)
       IN  BuilderCall("order_by", d, R,
                       IF R.ok THEN ReceiverAfterOrderBy(dfs[d], expr_list, asc) ELSE dfs[d],
                       [expr_list |-> expr_list, asc |-> asc])

DataFrame_limit(d, n) ==
    /\ d \in DOMAIN dfs
    /\ Len(dfs) < MaxDFs
    /\ BuilderCall("limit", d, limit_result(dfs[d], n), dfs[d], [n |-> n])

\* the clause _validate_mutable names, "" if the DataFrame may be mutated
MutableButForLimit(self) ==
    CASE self.group_by_clause # None \/ self.grouping_tbl # None -> "group_by"
      [] self.order_by_clause # None -> "order_by"
      [] self.select_list # None -> "select"
      [] OTHER -> ""
AppliedClause(self) ==
    CASE self.group_by_clause # None \/ self.grouping_tbl # None -> "group_by"
      [] self.order_by_clause # None -> "order_by"
      [] self.select_list # None -> "select"
      [] self.limit_val # None -> "limit"
      [] OTHER -> ""

\* DataFrame._validate_mutable(op_name): the error it raises (without the
\* quotes around the two names), "" if none
validate_mutable(self, op_name) ==
    IF AppliedClause(self) = "" THEN ""
    ELSE "Cannot use " \o op_name \o " after " \o AppliedClause(self)

\* the filter of a DataFrame as the filter of an update, a delete or a view
WherePred(self) == IF self.where_clause = None THEN "none" ELSE "c2lt1"

\* a mutating call on DataFrame object d that raised
MutationFailed(op, d, err) ==
    /\ last' = [op |-> op, ok |-> FALSE, err |-> err, self |-> d, df |-> dfs[d]]
    /\ UNCHANGED <<dataset_cache, session, scan, dfs, columns, _is_dropped, is_dropped, dropped_versions, tbls,
                   tbl_dependents, version, schema, store, next_id, next_rowid>>

\* DataFrame.update(value_spec, cascade) on object d; a DataFrame that passes
\* the validation is one over the base table
update(d, C, cascade) ==
    /\ d \in DOMAIN dfs
    /\ LET err == validate_mutable(dfs[d], "update")
       IN  IF err # ""
           THEN MutationFailed("df.update", d, err)
           ELSE /\ AllBelowCap
                /\ dfs[d].tbl = tbls[1].path
                /\ LET S == TableVersion_update(1, C, WherePred(dfs[d]), cascade)
                   IN  /\ version' = S.version
                       /\ store' = S.store
                /\ last' = [op |-> "df.update", ok |-> TRUE, err |-> "", self |-> d,
                            df |-> dfs[d]]
                /\ UNCHANGED <<dataset_cache, session, scan, dfs, columns, _is_dropped, is_dropped, dropped_versions,
                               tbls, tbl_dependents, schema, next_id, next_rowid>>

\* DataFrame.delete() on object d
delete(d) ==
    /\ d \in DOMAIN dfs
    /\ LET err == validate_mutable(dfs[d], "delete")
       IN  CASE err # "" -> MutationFailed("df.delete", d, err)
             [] ~PathIsInsertable(dfs[d].tbl) ->
                   MutationFailed("df.delete", d, "Cannot delete from view")
             [] OTHER ->
                   /\ AllBelowCap
                   /\ LET S == TableVersion_delete(dfs[d].tbl, WherePred(dfs[d]))
                      IN  /\ version' = S.version
                          /\ store' = S.store
                   /\ last' = [op |-> "df.delete", ok |-> TRUE, err |-> "", self |-> d,
                               df |-> dfs[d]]
                   /\ UNCHANGED <<dataset_cache, session, scan, dfs, columns, _is_dropped, is_dropped,
                                  dropped_versions, tbls, tbl_dependents, schema,
                                  next_id, next_rowid>>

\* create_view(name, df) with the DataFrame object d of catalog object b as
\* its base: the filter of the DataFrame becomes the filter of the view
create_view_of_df(d, b) ==
    /\ d \in DOMAIN dfs
    /\ b \in DOMAIN tbls
    /\ dfs[d].tbl = tbls[b].path
    /\ LET err == validate_mutable(dfs[d], "create_view")
       IN  IF err # ""
           THEN MutationFailed("df.create_view", d, err)
           ELSE /\ next_id <= MaxViews + 1
                /\ LET R == View_create_result(tbls, tbl_dependents, ToString(next_id), b, b,
                                               {}, WherePred(dfs[d]), FALSE, "none")
                   IN  /\ tbls' = R.tbls
                       /\ tbl_dependents' = R.tbl_dependents
                       /\ schema' = R.schema
                       /\ store' = R.store
                       /\ next_id' = R.next_id
                       /\ last' = [op |-> "df.create_view", ok |-> R.ok, err |-> R.err,
                                   self |-> d, df |-> dfs[d]]
                /\ UNCHANGED <<dataset_cache, session, scan, dfs, columns, version, next_rowid, _is_dropped, is_dropped,
                               dropped_versions>>

\* the expressions _vars collects: select list, where clause, group-by list
\* and order-by list, in this order
AllExprsButOrderBy(self) ==
    self._select_list_exprs
        \o (IF self.where_clause # None THEN <<The(self.where_clause)>> ELSE <<>>)
        \o (IF self.group_by_clause # None THEN The(self.group_by_clause) ELSE <<>>)
AllExprs(self) ==
    self._select_list_exprs
        \o (IF self.where_clause # None THEN <<The(self.where_clause)>> ELSE <<>>)
        \o (IF self.group_by_clause # None THEN The(self.group_by_clause) ELSE <<>>)
        \o (IF self.order_by_clause # None
            THEN [i \in DOMAIN The(self.order_by_clause) |->
                     The(self.order_by_clause)[i].expr]
            ELSE <<>>)

\* DataFrame._vars(): the first Variable of every name; an error if a later
\* Variable of the same name has another type
vars_result(self) ==
    LET vs == list_subexprs(AllExprs(self))
        first == {i \in DOMAIN vs : \A j \in 1..(i - 1) : vs[j].a # vs[i].a}
        clash == {i \in DOMAIN vs :
                     \E j \in first : j < i /\ vs[j].a = vs[i].a /\ vs[j].b # vs[i].b}
    IN  IF clash # {}
        THEN [ok |-> FALSE, err |-> "Multiple definitions of parameter", unique_vars |-> {}]
        ELSE [ok |-> TRUE, err |-> "", unique_vars |-> {vs[i] : i \in first}]

\* DataFrame.parameters(): parameter name -> type, as a set of pairs
parameters_result(self) ==
    LET V == vars_result(self)
    IN  [ok |-> V.ok, err |-> V.err,
         params |-> {[name |-> v.a, type |-> v.b] : v \in V.unique_vars}]

\* Expr.substitute(spec): the expression it returns, with every Variable
\* that spec names replaced
Subst(node, spec) ==
    IF node.op = "var" /\ node.a \in DOMAIN spec THEN spec[node.a] ELSE node
substitute(e, spec) == [i \in DOMAIN e |-> Subst(e[i], spec)]

\* the object e after e.substitute(spec) when the value the call returns is
\* dropped: its components are replaced, the object itself is still e
SubstitutedInPlace(e, spec) ==
    [i \in DOMAIN e |-> IF i = 1 THEN e[i] ELSE Subst(e[i], spec)]

\* Expr.list_substitute(expr_list, spec): every entry becomes what its
\* substitute returns
list_substitute(expr_list, spec) ==
    [i \in DOMAIN expr_list |-> substitute(expr_list[i], spec)]

\* Expr.from_object(arg_val): a literal of the value, None for an object
\* that has no expression
from_object(arg_val) ==
    IF arg_val.type = "none" THEN None ELSE Some(Literal(arg_val.value, arg_val.type))

\* the arguments of bind that name a parameter; the others are ignored
UsedArgs(args, unique_vars) ==
    SelectSeq(args, LAMBDA arg : \E v \in unique_vars : v.a = arg.name)

\* DataFrame.bind(args); args is a list of (name, value) in dict order
bind_result(self, args) ==
    LET V == vars_result(self)
        used == UsedArgs(args, V.unique_vars)
        spec == [n \in {used[i].name : i \in DOMAIN used} |->
                    LET arg == used[CHOOSE i \in DOMAIN used : used[i].name = n]
                    IN  IF from_object(arg.val) = None THEN Literal("", "none")[1]
                        ELSE The(from_object(arg.val))[1]]
        select_list_exprs == list_substitute(self._select_list_exprs, spec)
        select_list == [i \in DOMAIN select_list_exprs |->
                           [expr |-> select_list_exprs[i], name |-> Some(self._schema[i])]]
    IN  CASE ~V.ok -> Failed(V.err)
          [] \E i \in DOMAIN used : from_object(used[i].val) = None ->
                Failed("Cannot convert argument")
          [] OTHER ->
                Returns(DataFrame(
                    self.tbl, Some(select_list),
                    IF self.where_clause # None
                    THEN Some(SubstitutedInPlace(The(self.where_clause), spec))
                    ELSE None,
                    IF self.group_by_clause # None
                    THEN Some(list_substitute(The(self.group_by_clause), spec))
                    ELSE None,
                    self.grouping_tbl,
                    IF self.order_by_clause # None
                    THEN Some([i \in DOMAIN The(self.order_by_clause) |->
                                 [expr |-> substitute(The(self.order_by_clause)[i].expr, spec),
                                  asc |-> The(self.order_by_clause)[i].asc]])
                    ELSE None,
                    self.limit_val))

\* DataFrame.parameters() on object d
parameters(d) ==
    /\ d \in DOMAIN dfs
    /\ LET P == parameters_result(dfs[d])
       IN  last' = [op |-> "parameters", ok |-> P.ok, err |-> P.err, self |-> d,
                    before |-> dfs[d], params |-> P.params]
    /\ UNCHANGED <<dataset_cache, session, scan, dfs, columns, _is_dropped, is_dropped, dropped_versions, tbls,
                   tbl_dependents, version, schema, store, next_id, next_rowid>>

\* DataFrame.bind(args) on object d
bind(d, args) ==
    /\ d \in DOMAIN dfs
    /\ Len(dfs) < MaxDFs
    /\ \A i, j \in DOMAIN args : args[i].name = args[j].name => i = j
    /\ BuilderCall("bind", d, bind_result(dfs[d], args), dfs[d], [args |-> args])

\* ------------------------------------------------------ as_dict, from_dict
\* Expr.as_dict(): one dictionary per node, with the class name of the node
\* and, for an operator node, its operator
Expr_as_dict(e) ==
    [i \in DOMAIN e |->
        [_classname |-> CASE e[i].op = "col" -> "ColumnRef"
                          [] e[i].op = "lit" -> "Literal"
                          [] e[i].op = "var" -> "Variable"
                          [] e[i].op = "add" -> "ArithmeticExpr"
                          [] OTHER -> "Comparison",
         operator |-> IF e[i].op \in {"col", "lit", "var"} THEN "" ELSE e[i].op,
         a |-> e[i].a, b |-> e[i].b]]

\* Expr.from_dict(): the node of the class the dictionary names
Expr_from_dict(d) ==
    [i \in DOMAIN d |->
        [op |-> CASE d[i]._classname = "ColumnRef" -> "col"
                  [] d[i]._classname = "Literal" -> "lit"
                  [] d[i]._classname = "Variable" -> "var"
                  [] OTHER -> d[i].operator,
         a |-> d[i].a, b |-> d[i].b]]

\* TableVersion.as_dict(): the table id and the effective version, None for a
\* live version
TableVersion_as_dict(tv) ==
    [id |-> tv.id, effective_version |-> IF tv.is_snapshot THEN Some(tv.version) ELSE None]

\* TableVersion.from_dict(): the TableVersion the catalog holds for the id and
\* the effective version
TableVersion_from_dict(d) ==
    IF d.effective_version = None THEN LiveTv(d.id)
    ELSE CHOOSE tv \in UNION {{tbls[h].path[i] : i \in DOMAIN tbls[h].path} : h \in DOMAIN tbls} :
            tv.id = d.id /\ tv.is_snapshot /\ tv.version = The(d.effective_version)

\* TableVersionPath.as_dict() and from_dict(): version by version
TableVersionPath_as_dict(path) == [i \in DOMAIN path |-> TableVersion_as_dict(path[i])]
TableVersionPath_from_dict(d) == [i \in DOMAIN d |-> TableVersion_from_dict(d[i])]

\* x.as_dict() if x is not None else None, and its inverse
Optional(opt, F(_)) == IF opt = None THEN None ELSE Some(F(The(opt)))

\* the entries of the dictionary: pairs (expression, name), expressions,
\* pairs (expression, asc)
SelectListAsDict(l) == [i \in DOMAIN l |-> <<Expr_as_dict(l[i].expr), l[i].name>>]
SelectListFromDict(l) == [i \in DOMAIN l |-> [expr |-> Expr_from_dict(l[i][1]), name |-> l[i][2]]]
ExprsAsDict(l) == [i \in DOMAIN l |-> Expr_as_dict(l[i])]
ExprsFromDict(l) == [i \in DOMAIN l |-> Expr_from_dict(l[i])]
OrderByAsDict(l) == [i \in DOMAIN l |-> <<Expr_as_dict(l[i].expr), l[i].asc>>]
OrderByFromDictAscending(l) == [i \in DOMAIN l |-> [expr |-> Expr_from_dict(l[i][1]), asc |-> TRUE]]
OrderByFromDict(l) == [i \in DOMAIN l |-> [expr |-> Expr_from_dict(l[i][1]), asc |-> l[i][2]]]

\* DataFrame.as_dict()
as_dict(self) ==
    [_classname |-> "DataFrame",
     tbl |-> TableVersionPath_as_dict(self.tbl),
     select_list |-> Optional(self.select_list, SelectListAsDict),
     where_clause |-> Optional(self.where_clause, Expr_as_dict),
     group_by_clause |-> Optional(self.group_by_clause, ExprsAsDict),
     grouping_tbl |-> Optional(self.grouping_tbl, TableVersion_as_dict),
     order_by_clause |-> Optional(self.order_by_clause, OrderByAsDict),
     limit_val |-> self.limit_val]

\* DataFrame.from_dict(d)
from_dict(d) ==
    Returns(DataFrame(TableVersionPath_from_dict(d.tbl),
                      Optional(d.select_list, SelectListFromDict),
                      Optional(d.where_clause, Expr_from_dict),
                      Optional(d.group_by_clause, ExprsFromDict),
                      Optional(d.grouping_tbl, TableVersion_from_dict),
                      Optional(d.order_by_clause, OrderByFromDict),
                      d.limit_val))

\* DataFrame.from_dict(df.as_dict()) for DataFrame object d; the new object
\* is kept in the record of the call
from_dict_of_as_dict(d) ==
    /\ d \in DOMAIN dfs
    /\ last' = [op |-> "from_dict", ok |-> from_dict(as_dict(dfs[d])).ok, self |-> d,
                before |-> dfs[d], dict |-> as_dict(dfs[d]),
                result |-> from_dict(as_dict(dfs[d])).df]
    /\ UNCHANGED <<dataset_cache, session, scan, tbls, tbl_dependents, version, schema, store, next_id, next_rowid,
                   _is_dropped, is_dropped, dropped_versions, columns, dfs>>

\* ------------------------------------------------------- dataset cache
\* DataFrame._hash_result_set(): the digest of the serialized query and the
\* actual versions of the path; the digest is taken to be free of collisions
\* and is the summary it is computed from
hash_result_set_query_only(self) == [d |-> as_dict(self), tbl_versions |-> <<>>]
hash_result_set(self) ==
    [d |-> as_dict(self),
     tbl_versions |-> [i \in DOMAIN self.tbl |-> EffVersion(self.tbl[i], version)]]

\* DataFrame.to_coco_dataset(): returns the export cached under the key if
\* there is one, writes a new export under the key if not; every export is
\* kept with the query and the versions of all tables it was written at
to_coco_dataset(d) ==
    /\ d \in DOMAIN dfs
    /\ LET cache_key == hash_result_set(dfs[d])
           exists == \E e \in dataset_cache : e.cache_key = cache_key
       IN  /\ dataset_cache' =
                 IF exists THEN dataset_cache
                 ELSE dataset_cache \cup
                        {[cache_key |-> cache_key, df |-> dfs[d], version |-> version]}
           /\ last' = [op |-> "to_coco_dataset", ok |-> TRUE, self |-> d,
                       cached |-> exists, cache_key |-> cache_key]
    /\ UNCHANGED <<session, scan, tbls, tbl_dependents, version, schema, store, next_id,
                   next_rowid, _is_dropped, is_dropped, dropped_versions, columns, dfs>>

\* ------------------------------------------------------- query execution
\* the end of exec_plan and of _exec: the finally clause closes the plan; a
\* connection that _exec opened itself is committed when the scan ran to
\* completion and rolled back when it raised, and is released either way; a
\* connection of the caller is left as it is
EndOfScanNoFinally(s, raised) ==
    [s EXCEPT !.pc = "done",
              !.closed = IF raised THEN @ ELSE @ + 1,
              !.conn = CASE ~s.own_conn -> @
                         [] raised -> "rolled back"
                         [] OTHER -> "committed"]
EndOfScan(s, raised) ==
    [s EXCEPT !.pc = "done",
              !.closed = @ + 1,
              !.conn = CASE ~s.own_conn -> @
                         [] raised -> "rolled back"
                         [] OTHER -> "committed"]

\* DataFrame._exec(conn) up to the first batch: the plan is created, a
\* connection is opened unless the caller supplies one, the plan is opened;
\* the plan has batches row batches to return
exec_plan_open(d, conn_supplied, batches) ==
    /\ d \in DOMAIN dfs
    /\ scan.pc # "open"
    /\ scan' = [pc |-> "open", df |-> d, own_conn |-> ~conn_supplied, conn |-> "open",
                opened |-> 1, closed |-> 0, left |-> batches]
    /\ last' = [op |-> "_exec", ok |-> TRUE, self |-> d]
    /\ UNCHANGED <<dataset_cache, session, tbls, tbl_dependents, version, schema, store,
                   next_id, next_rowid, _is_dropped, is_dropped, dropped_versions,
                   columns, dfs>>

\* for row_batch in plan: the next batch is fetched and its rows are yielded
exec_plan_next ==
    /\ scan.pc = "open"
    /\ scan.left > 0
    /\ scan' = [scan EXCEPT !.left = @ - 1]
    /\ last' = [op |-> "_exec batch", ok |-> TRUE, self |-> scan.df]
    /\ UNCHANGED <<dataset_cache, session, tbls, tbl_dependents, version, schema, store,
                   next_id, next_rowid, _is_dropped, is_dropped, dropped_versions,
                   columns, dfs>>

\* the scan ends: the plan is exhausted (exc = "none") or fetching the next
\* batch raises exc; _output_row_iterator turns ExprEvalError and
\* DBAPIError into Error
exec_plan_ends(exc) ==
    /\ scan.pc = "open"
    /\ exc = "none" => scan.left = 0
    /\ scan' = EndOfScan(scan, exc # "none")
    /\ last' = [op |-> "_exec end", ok |-> exc = "none", self |-> scan.df,
                err |-> IF exc \in {"ExprEvalError", "DBAPIError"} THEN "Error" ELSE exc]
    /\ UNCHANGED <<dataset_cache, session, tbls, tbl_dependents, version, schema, store,
                   next_id, next_rowid, _is_dropped, is_dropped, dropped_versions,
                   columns, dfs>>

\* inputs of the operations
ViewDefs == {<<{}, "none">>, <<{}, "c2lt1">>, <<{"x3"}, "c2lt1">>, <<{"x10"}, "none">>}
DeleteWheres == {"none", "c2ge1"}

\* the cascade over live views: insert, update and delete on the base table,
\* views and computed columns added to views
NextCascade ==
    \/ \E vals \in InsertRows : Table_insert(vals)
    \/ \E where \in Preds, C \in UpdateSpecs : DataFrame_update("none", where, C, TRUE)
    \/ \E where \in DeleteWheres : DataFrame_delete(1, "none", where)
    \/ \E b \in Ids, def \in ViewDefs :
          View_create(b, def[1], def[2], FALSE) /\ last'.ok

SpecCascade == Init /\ [][NextCascade]_vars

\* views and snapshots over the base table and over each other
NextSnap ==
    \/ \E vals \in InsertRows : Table_insert(vals)
    \/ \E C \in {{"c2"}, {"c3"}} : DataFrame_update("none", "none", C, TRUE)
    \/ DataFrame_delete(1, "none", "c2ge1")
    \/ \E b \in Ids, cols \in {{}, {"x3"}}, predicate \in Preds, is_snapshot \in BOOLEAN :
          View_create(b, cols, predicate, is_snapshot) /\ last'.ok
    \/ \E d \in Ids : View_add_column(d, "x3")

SpecSnap == Init /\ [][NextSnap]_vars

\* chains of views and snapshots on any table, while rows are inserted into
\* the table: snapshots that are plain, with a column, with a filter and with
\* an iterator; views that are plain and with a filter
PathDefs ==
    {<<{}, "none", "none", TRUE>>, <<{"x10"}, "none", "none", TRUE>>,
     <<{}, "c2lt1", "none", TRUE>>, <<{}, "none", "dup_name", TRUE>>,
     <<{}, "none", "none", FALSE>>, <<{}, "c2lt1", "none", FALSE>>}

NextPath ==
    \/ Table_insert([c2 |-> 0, c3 |-> 0, c10 |-> 0])
    \/ \E b \in Ids, def \in PathDefs :
          View_create_iter(b, def[1], def[2], def[4], def[3]) /\ last'.ok

SpecPath == Init /\ [][NextPath]_vars

\* the operations a view rejects
NextErr ==
    \/ \E vals \in InsertRows : Table_insert(vals)
    \/ \E id \in DOMAIN tbls, where \in DeleteWheres : DataFrame_delete(id, "none", where)
    \/ \E id \in DOMAIN tbls, clause \in Clauses : DataFrame_delete(id, clause, "none")
    \/ \E id \in DOMAIN tbls : View_insert(id)
    \/ \E id \in DOMAIN tbls : View_delete(id)
    \/ \E b \in Ids, def \in {<<{}, "none">>, <<{"x3"}, "c2lt1">>}, is_snapshot \in BOOLEAN :
          View_create(b, def[1], def[2], is_snapshot) /\ last'.ok

SpecErr == Init /\ [][NextErr]_vars

\* names of catalog paths: the base table's and two for views
Names == {"test_tbl", "test_view", "test_view_on_view"}

\* creating, replacing and dropping views and snapshots by name
NextDrop ==
    \/ \E name \in Names, b \in Ids, is_snapshot \in BOOLEAN, if_exists \in IfExists :
          create_view(name, b, b, {}, "none", is_snapshot, "none", if_exists)
    \/ \E name \in Names, force \in BOOLEAN : drop_table(name, force)
    \/ \E id \in Ids : View_drop(id)

SpecDrop == Init /\ [][NextDrop]_vars

\* creating views and snapshots under a free name: with a filter and value
\* expressions over the columns of the base, over the columns of the table
\* (whatever the base), over the columns of any handle (on the table), with a
\* column that is not nullable, and with an iterator that is rejected
NextValid ==
    \/ Table_insert([c2 |-> 0, c3 |-> 0, c10 |-> 0])
    \/ \E name \in {"test_view", "test_snap"}, b \in Ids,
          def \in {<<{}, "none">>, <<{"x3"}, "c2lt1">>}, is_snapshot \in BOOLEAN :
          create_view(name, b, b, def[1], def[2], is_snapshot, "none", "error") /\ last'.ok
    \/ \E b \in Ids, def \in {<<{}, "c2lt1">>, <<{"x3"}, "none">>}, is_snapshot \in BOOLEAN :
          /\ create_view("test_view", b, 1, def[1], def[2], is_snapshot, "none", "error")
          /\ last'.entered
    \/ \E src \in Ids, def \in {<<{}, "c2lt1">>, <<{"x3"}, "none">>}, is_snapshot \in BOOLEAN :
          /\ create_view("test_view", 1, src, def[1], def[2], is_snapshot, "none", "error")
          /\ last'.entered
    \/ \E b \in Ids, is_snapshot \in BOOLEAN :
          /\ create_view("test_view", b, b, {"n1"}, "none", is_snapshot, "none", "error")
          /\ last'.entered
    \/ \E iterator \in Iterators \ {"none"}, is_snapshot \in BOOLEAN :
          /\ IteratorArgsRejected(iterator) \/ IteratorNameRejected(iterator, {"x3"})
          /\ create_view("test_view", 1, 1, {"x3"}, "none", is_snapshot, iterator, "error")
          /\ last'.entered

SpecValid == Init /\ [][NextValid]_vars

\* adding columns to views: a view on the table under every if_exists value
\* (the calls of test_add_column_to_view) and a view on that view
TypeCol(n) == [name |-> n, kind |-> "type", refs |-> {}, value |-> "None"]
ValueCol(n, v) == [name |-> n, kind |-> "value", refs |-> {}, value |-> v]
ComputedCol(n, refs) == [name |-> n, kind |-> "computed", refs |-> refs, value |-> "expr"]
AddCalls ==
    {<<ValueCol("vcol", "xxx")>>, <<ValueCol("vcol", "aaa")>>, <<TypeCol("c2")>>,
     <<TypeCol("x3")>>, <<ComputedCol("dep", {"vcol"})>>,
     <<TypeCol("vcol"), TypeCol("new1")>>, <<TypeCol("c2"), TypeCol("new1")>>,
     <<TypeCol("new1"), TypeCol("c2")>>}
AddPolicies == IfExists \cup {"invalid"}

NextAddCol ==
    \/ next_id = 2 /\ View_create(1, {"x3"}, "none", FALSE)
    \/ next_id = 3 /\ View_create(2, {}, "none", FALSE)
    \/ \E call \in AddCalls, if_exists \in AddPolicies : add_columns(2, call, if_exists)
    \/ \E if_exists \in {"error", "replace"} :
          add_columns(3, <<TypeCol("vcol"), TypeCol("new1")>>, if_exists)

SpecAddCol == Init /\ [][NextAddCol]_vars


\* the DataFrame builder on the base table: select lists with repeated,
\* unnamed and user-named entries, filters, orderings and limits
c2 == ColumnRef("c2")
c3 == ColumnRef("c3")
c2_plus_1 == BinaryOp("add", c2, Literal("1", "int"))
c2_lt_1 == BinaryOp("lt", c2, Literal("1", "int"))
Named(name, e) == [name |-> name, item |-> ExprItem(e)]
SelectCalls ==
    {<<<<>>, <<>>>>,
     <<<<ExprItem(c2)>>, <<>>>>,
     <<<<ExprItem(c2), ExprItem(c2), ExprItem(c2)>>, <<>>>>,
     <<<<ExprItem(c2), ExprItem(c2)>>, <<Named("c2_1", c3)>>>>,
     <<<<ExprItem([c2_plus_1 EXCEPT ![1].b = "int"]), ExprItem(c3)>>, <<Named("c2", c2)>>>>,
     <<<<OtherItem(Literal("1", "int"))>>, <<Named("col_0", c2)>>>>,
     <<<<OtherItem(Literal("obj", "invalid"))>>, <<>>>>,
     <<<<>>, <<Named("not valid", c2)>>>>}
WherePreds == {ExprItem(c2_lt_1), ExprItem(c2), OtherItem(<<>>)}
OrderByCalls ==
    {<<ExprItem(c2)>>, <<ExprItem(c3), ExprItem(c2)>>, <<ExprItem(c3), OtherItem(<<>>)>>}
GroupByCalls == {<<ExprItem(c2)>>, <<>>}

NextDF ==
    \/ Table_df(1)
    \/ \E d \in 1..MaxDFs, call \in SelectCalls : DataFrame_select(d, call[1], call[2])
    \/ \E d \in 1..MaxDFs, pred \in WherePreds : DataFrame_where(d, pred)
    \/ \E d \in 1..MaxDFs, items \in GroupByCalls : DataFrame_group_by(d, items)
    \/ \E d \in 1..MaxDFs, exprs \in OrderByCalls, asc \in BOOLEAN : DataFrame_order_by(d, exprs, asc)
    \/ \E d \in 1..MaxDFs : DataFrame_limit(d, 1)

SpecDF == Init /\ [][NextDF]_vars


\* group_by with tables: a view on the table, then a view or a snapshot on
\* either of them, and DataFrames of all of them grouped by every table
GroupByTableCalls ==
    {<<TableItem(id)>> : id \in Ids}
        \cup {<<TableItem(1), ExprItem(c2)>>, <<ExprItem(c2), TableItem(1)>>,
              <<ExprItem(c2)>>, <<OtherItem(<<>>)>>}

NextGroup ==
    \/ next_id = 2 /\ View_create(1, {}, "none", FALSE)
    \/ \E b \in {1, 2}, is_snapshot \in BOOLEAN :
          next_id = 3 /\ View_create(b, {}, "none", is_snapshot)
    \/ \E id \in Ids : Table_df(id)
    \/ \E d \in 1..MaxDFs, items \in GroupByTableCalls : DataFrame_group_by(d, items)
    \/ \E d \in 1..MaxDFs : DataFrame_select(d, <<ExprItem(c2)>>, <<>>)
    \/ \E d \in 1..MaxDFs : DataFrame_where(d, ExprItem(c2_lt_1))
    \/ \E d \in 1..MaxDFs : DataFrame_order_by(d, <<ExprItem(c2)>>, TRUE)
    \/ \E d \in 1..MaxDFs : DataFrame_limit(d, 1)

SpecGroup == Init /\ [][NextGroup]_vars


\* mutations through a DataFrame: a row and a view first, then DataFrames of
\* the table and the view built with every kind of clause, and update,
\* delete and create_view on them
NextMut ==
    \/ next_rowid = 1 /\ next_id = 2 /\ Table_insert([c2 |-> 0, c3 |-> 0, c10 |-> 0])
    \/ next_rowid = 2 /\ next_id = 2 /\ View_create(1, {}, "none", FALSE)
    \/ \E id \in {1, 2} : next_id > 2 /\ Table_df(id)
    \/ \E d \in 1..MaxDFs : DataFrame_select(d, <<ExprItem(c2)>>, <<>>)
    \/ \E d \in 1..MaxDFs : DataFrame_where(d, ExprItem(c2_lt_1))
    \/ \E d \in 1..MaxDFs, items \in {<<ExprItem(c2)>>, <<TableItem(1)>>} :
          DataFrame_group_by(d, items)
    \/ \E d \in 1..MaxDFs : DataFrame_order_by(d, <<ExprItem(c2)>>, TRUE)
    \/ \E d \in 1..MaxDFs : DataFrame_limit(d, 1)
    \/ \E d \in 1..MaxDFs : update(d, {"c3"}, TRUE)
    \/ \E d \in 1..MaxDFs : delete(d)
    \/ \E d \in 1..MaxDFs, b \in {1, 2} : create_view_of_df(d, b)

SpecMut == Init /\ [][NextMut]_vars


\* parameters and bind: DataFrames whose select list, filter, grouping and
\* ordering hold variables, one name with two types among them, and a filter
\* that is a variable by itself
p_int == Variable("p", "int")
p_str == Variable("p", "str")
q_int == Variable("q", "int")
flag == Variable("flag", "bool")
c2_lt_q == BinaryOp("lt", c2, q_int)
Arg(name, value, type) == [name |-> name, val |-> [value |-> value, type |-> type]]
BindArgs ==
    {<<Arg("p", "1", "int")>>, <<Arg("q", "2", "int"), Arg("r", "3", "int")>>,
     <<Arg("flag", "True", "bool")>>, <<Arg("p", "obj", "none")>>,
     <<Arg("r", "obj", "none")>>}

NextParam ==
    \/ Table_df(1)
    \/ \E d \in 1..MaxDFs, items \in {<<ExprItem(p_int), ExprItem(c2)>>, <<ExprItem(q_int)>>} :
          DataFrame_select(d, items, <<>>)
    \/ \E d \in 1..MaxDFs, pred \in {c2_lt_q, flag} : DataFrame_where(d, ExprItem(pred))
    \/ \E d \in 1..MaxDFs : DataFrame_group_by(d, <<ExprItem(p_int)>>)
    \/ \E d \in 1..MaxDFs, e \in {p_str, q_int}, asc \in BOOLEAN :
          DataFrame_order_by(d, <<ExprItem(e)>>, asc)
    \/ \E d \in 1..MaxDFs : DataFrame_limit(d, 1)
    \/ \E d \in 1..MaxDFs : parameters(d)
    \/ \E d \in 1..MaxDFs, args \in BindArgs : bind(d, args)

SpecParam == Init /\ [][NextParam]_vars

\* serializing DataFrames of the table and of a view or snapshot with a
\* column, built with every kind of clause
NextDict ==
    \/ \E is_snapshot \in BOOLEAN : next_id = 2 /\ View_create(1, {"x3"}, "none", is_snapshot)
    \/ \E id \in {1, 2} : next_id > 2 /\ Table_df(id)
    \/ \E d \in 1..MaxDFs, call \in {<<<<ExprItem(c2_plus_1)>>, <<>>>>,
                                     <<<<ExprItem(c3)>>, <<Named("n", c2)>>>>} :
          DataFrame_select(d, call[1], call[2])
    \/ \E d \in 1..MaxDFs, pred \in {c2_lt_1, c2_lt_q} : DataFrame_where(d, ExprItem(pred))
    \/ \E d \in 1..MaxDFs, items \in {<<ExprItem(c2), ExprItem(c3)>>, <<TableItem(1)>>} :
          DataFrame_group_by(d, items)
    \/ \E d \in 1..MaxDFs, asc \in BOOLEAN : DataFrame_order_by(d, <<ExprItem(c3), ExprItem(c2)>>, asc)
    \/ \E d \in 1..MaxDFs : DataFrame_limit(d, 1)
    \/ \E d \in 1..MaxDFs : from_dict_of_as_dict(d)

SpecDict == Init /\ [][NextDict]_vars

\* exports of DataFrames of the table and of a view or a snapshot, while
\* rows are inserted into the table
NextCache ==
    \/ \E is_snapshot \in BOOLEAN : next_id = 2 /\ View_create(1, {}, "c2lt1", is_snapshot)
    \/ next_id > 2 /\ Table_insert([c2 |-> 0, c3 |-> 0, c10 |-> 0])
    \/ \E id \in {1, 2} : next_id > 2 /\ Table_df(id)
    \/ DataFrame_where(1, ExprItem(c2_lt_1))
    \/ \E d \in 1..MaxDFs : to_coco_dataset(d)

SpecCache == Init /\ [][NextCache]_vars

\* View._create statement by statement: views and snapshots on the table
\* and on each other, after rows were inserted
NextSession ==
    \/ session.pc = "idle" /\ next_id = 2 /\ Table_insert([c2 |-> 0, c3 |-> 0, c10 |-> 0])
    \/ \E b \in Ids, cols \in {{}, {"x3"}}, predicate \in Preds, is_snapshot \in BOOLEAN :
          View_create_begin(b, cols, predicate, is_snapshot)
    \/ View_create_step

SpecSession == Init /\ [][NextSession]_vars

\* scans of DataFrames with and without a connection of the caller, over
\* plans of up to MaxRows batches, that run to completion or raise
NextScan ==
    \/ Table_df(1)
    \/ DataFrame_where(1, ExprItem(c2_lt_1))
    \/ \E d \in 1..MaxDFs, conn_supplied \in BOOLEAN, batches \in 0..MaxRows :
          exec_plan_open(d, conn_supplied, batches)
    \/ exec_plan_next
    \/ \E exc \in {"none", "ExprEvalError", "DBAPIError", "KeyError"} : exec_plan_ends(exc)

SpecScan == Init /\ [][NextScan]_vars

\* ------------------------------------------------------------ properties
Views == {v \in DOMAIN tbls : tbls[v].kind = "view"}

\* the rows of view v are the rows of its base that pass its filter, and every
\* computed column holds its value expression evaluated on the base row
MatchesBase(v, ver, sch, st) ==
    LET path == tbls[v].path
        base == Tail(path)
    IN  /\ PathRids(path, ver, st) =
              {rid \in PathRids(base, ver, st) :
                  PredHolds(tbls[v].predicate, RootVals(base, rid, ver, st))}
        /\ \A rid \in PathRids(path, ver, st) :
              /\ \A c \in sch[v] :
                    TvRow(path[1], rid, ver, st).vals[c] =
                        ColValue(c, RootVals(base, rid, ver, st))
              /\ \A c \in PathCols(base, sch) :
                    CellValue(path, rid, c, ver, sch, st) =
                        CellValue(base, rid, c, ver, sch, st)

Result(id, ver, sch, st) == Collect(tbls[id].path, ver, sch, st)
Columns(id, sch) == PathCols(tbls[id].path, sch)

\* operations that change rows of the base table
TableMutations == {"insert", "update", "delete"}

\* C2: once a snapshot of a table or view exists, no insert, update, delete
\* or add_column on a table or view of its base chain changes the snapshot's
\* column set, its row count or any of its row values
C2_SnapshotImmutable ==
    [][\A s \in Views :
          tbls[s].is_snapshot =>
              /\ Columns(s, schema') = Columns(s, schema)
              /\ Result(s, version', schema', store') = Result(s, version, schema, store)]_vars

\* a snapshot whose rows differ from those of the live table it was taken of
C2_Witness ==
    \E s \in Views :
        /\ tbls[s].is_snapshot /\ tbls[s].snapshot_only
        /\ PathTblId(tbls[s].path) = 1
        /\ PathRids(tbls[s].path, version, store) # {}
        /\ Result(s, version, schema, store) # Result(1, version, schema, store)

\* a view that is not a snapshot but whose base is one
IsViewOfSnapshot(v) == IsMutableView(v) /\ PathIsSnapshot(Tail(tbls[v].path))

\* C3: insert, cascading update and delete on the live table under a snapshot
\* do not reach a (non-snapshot) view over that snapshot: its version and its
\* rows are unchanged and equal its filter and expressions over the snapshot
C3_ViewOfSnapshotUntouched ==
    [][\A v \in Views :
          (IsViewOfSnapshot(v) /\ last'.op \in TableMutations) =>
              /\ version'[v] = version[v]
              /\ Result(v, version', schema', store') = Result(v, version, schema, store)
              /\ MatchesBase(v, version', schema', store')]_vars

\* a view with a filter and a computed column over a snapshot of the base
\* table, after an update of the live table changed the column it computes from
C3_Witness ==
    /\ last.op = "update" /\ last.cols = {"c3"}
    /\ \E v \in Views :
          /\ IsViewOfSnapshot(v) /\ tbls[v].base_id = 1 /\ schema[v] = {"x3"}
          /\ \E rid \in PathRids(tbls[v].path, version, store) :
                CellValue(tbls[v].path, rid, "c3", version, schema, store) #
                    CellValue(tbls[1].path, rid, "c3", version, schema, store)

\* C4: versions never decrease and grow by at most one per operation, and each
\* insert, update and delete on the table increases its version by exactly one
C4_VersionsIncrease ==
    [][/\ \A i \in Ids : version'[i] \in {version[i], version[i] + 1}
       /\ last'.op \in TableMutations => version'[1] = version[1] + 1]_vars

\* a delete that matched no row, after an insert
C4_Witness ==
    /\ last.op = "delete" /\ version[1] = 2
    /\ \A r \in store[1] : r.vmax = {}

\* C5: a cascading update of columns C bumps by one the version of the base
\* and of exactly the dependent views, at any depth, whose filter or computed
\* columns reference a column of C; all other views keep their version
C5_UpdateBumpsReferencing ==
    [][last'.op = "update" =>
          /\ version'[1] = version[1] + 1
          /\ \A v \in Views :
                version'[v] = IF ViewRefs(v) \cap last'.cols # {}
                              THEN version[v] + 1 ELSE version[v]]_vars

\* a second-level view was bumped by an update while its parent view was not
C5_Witness ==
    /\ last.op = "update"
    /\ \E v1, v2 \in Views :
          /\ tbls[v1].base_id = 1 /\ tbls[v2].base_id = v1
          /\ ViewRefs(v1) \cap last.cols = {} /\ ViewRefs(v2) \cap last.cols # {}
          /\ version[v1] = 0 /\ version[v2] = 1

\* a view whose direct base is another view
IsSecondLevel(v) == tbls[v].base_id \in Views

\* C6 as stated: a second-level view is bumped by an update only if its
\* direct parent view was bumped by it
C6_GrandchildOnlyIfParent ==
    [][last'.op = "update" =>
          \A v \in Views :
              (IsSecondLevel(v) /\ version'[v] # version[v])
                  => version'[tbls[v].base_id] # version[tbls[v].base_id]]_vars

\* C6 amended: the cascade visits a second-level view whether or not its
\* parent was affected; the view is bumped iff its own filter or computed
\* columns reference an updated column
C6_GrandchildByOwnRefs ==
    [][last'.op = "update" =>
          \A v \in Views :
              IsSecondLevel(v) =>
                  (version'[v] # version[v] <=> ViewRefs(v) \cap last'.cols # {})]_vars

\* an update bumped a first-level view and left the view on top of it, which
\* references none of the updated columns, at its version
C6_Witness ==
    /\ last.op = "update" /\ version[1] = 1
    /\ \E v \in Views :
          /\ IsSecondLevel(v) /\ ViewRefs(v) # {} /\ ViewRefs(v) \cap last.cols = {}
          /\ version[v] = 0 /\ version[tbls[v].base_id] = 1

\* rowids visible in catalog object id
Rids(id, ver, st) == PathRids(tbls[id].path, ver, st)

\* C7: a delete on the base bumps the base's version by one and removes the
\* deleted rows from every dependent view, at any depth; a dependent view's
\* version grows by one if it held a deleted row and is unchanged otherwise
C7_DeleteCascades ==
    [][last'.op = "delete" =>
          LET gone == Rids(1, version, store) \ Rids(1, version', store')
          IN  /\ version'[1] = version[1] + 1
              /\ \A v \in Views :
                    /\ Rids(v, version', store') = Rids(v, version, store) \ gone
                    /\ version'[v] = IF Rids(v, version, store) \cap gone # {}
                                     THEN version[v] + 1 ELSE version[v]]_vars

\* a deleted row was visible in a first-level view but filtered out of the
\* view on top of it: only the first-level view was bumped
C7_Witness ==
    /\ last.op = "delete"
    /\ \E v1, v2 \in Views :
          /\ tbls[v1].base_id = 1 /\ tbls[v2].base_id = v1
          /\ version[v1] = 1 /\ version[v2] = 0
          /\ \E r \in store[v1] : r.vmax = {1}

\* the views between view v and the base table, v included
ChainOf(v) == {tbls[v].path[i].id : i \in DOMAIN tbls[v].path} \cap Views

\* C8: an insert into the base bumps the base's version by one and adds the
\* new row to exactly the dependent views whose filter, and the filters of all
\* views between them and the base, it passes; each view that receives the row
\* is bumped by one and no other row of a view changes
C8_InsertCascades ==
    [][last'.op = "insert" =>
          LET rid == last'.rid
              vals == RootVals(tbls[1].path, rid, version', store')
          IN  /\ version'[1] = version[1] + 1
              /\ \A v \in Views :
                    /\ rid \in Rids(v, version', store')
                          <=> \A u \in ChainOf(v) : PredHolds(tbls[u].predicate, vals)
                    /\ Rids(v, version', store') \ {rid} = Rids(v, version, store)
                    /\ rid \in Rids(v, version', store') => version'[v] = version[v] + 1]_vars

\* an inserted row reached a first-level view and was filtered out of the
\* view on top of it
C8_Witness ==
    /\ last.op = "insert"
    /\ \E v1, v2 \in Views :
          /\ tbls[v1].base_id = 1 /\ tbls[v2].base_id = v1
          /\ last.rid \in Rids(v1, version, store)
          /\ last.rid \notin Rids(v2, version, store)

\* C9: insert and delete on a view, and delete through a DataFrame over a view
\* path, fail and change neither rows, versions nor the catalog; a delete
\* succeeds only on the path of a table
C9_ViewRejectsInsertDelete ==
    [][/\ last'.op \in {"view_insert", "view_delete"} =>
             /\ ~last'.ok
             /\ UNCHANGED <<dataset_cache, session, scan, tbls, tbl_dependents, version, schema, store>>
       /\ last'.op = "df_delete" =>
             /\ ~last'.ok
             /\ UNCHANGED <<dataset_cache, session, scan, tbls, tbl_dependents, version, schema, store>>
       /\ last'.op = "delete" => tbls[last'.tbl].kind = "table"]_vars

\* a delete through a DataFrame over the path of a view that holds rows failed
C9_Witness ==
    /\ last.op = "df_delete" /\ last.err = "Cannot delete from view"
    /\ \E v \in Views : IsMutableView(v) /\ Rids(v, version, store) # {}

\* number of occurrences of x in a sequence
Count(seq, x) == Cardinality({i \in DOMAIN seq : seq[i] = x})

\* C10: after a successful creation of a view or snapshot the catalog holds
\* the new view in tbls, an empty dependents list for it, and the view exactly
\* once in the dependents list of its base id (the table id of the path it was
\* declared on), also for a snapshot; every other dependents list is unchanged
C10_CreateRegisters ==
    [][(last'.op = "create_view" /\ last'.ok) =>
          LET id == last'.id
              base_id == PathTblId(tbls[last'.base].path)
          IN  /\ id \notin DOMAIN tbls
              /\ DOMAIN tbls' = DOMAIN tbls \cup {id}
              /\ tbls'[id].kind = "view" /\ tbls'[id].base_id = base_id
              /\ DOMAIN tbl_dependents' = DOMAIN tbl_dependents \cup {id}
              /\ tbl_dependents'[id] = <<>>
              /\ tbl_dependents'[base_id] = Append(tbl_dependents[base_id], id)
              /\ Count(tbl_dependents'[base_id], id) = 1
              /\ \A i \in DOMAIN tbl_dependents \ {base_id} :
                    tbl_dependents'[i] = tbl_dependents[i]]_vars

\* a snapshot with a filter was created on a base that already had a dependent
C10_Witness ==
    /\ last.op = "create_view" /\ last.ok
    /\ tbls[last.id].is_snapshot /\ ~tbls[last.id].snapshot_only
    /\ Len(tbl_dependents[tbls[last.id].base_id]) = 2

\* ------------------------------------------------- properties of the drops
\* elements of a sequence
Range(seq) == {seq[i] : i \in DOMAIN seq}

\* the objects reachable from the set S along the dependents lists in at
\* most n steps
RECURSIVE Reach(_, _)
Reach(S, n) ==
    IF n = 0 THEN S
    ELSE Reach(S \cup UNION {Range(tbl_dependents[j]) : j \in S \cap DOMAIN tbl_dependents},
               n - 1)

\* the transitive dependents of object i
Descendants(i) == Reach(Range(tbl_dependents[i]), Cardinality(Ids))

\* C11: after any sequence of create-view, create-snapshot and drop
\* operations the dependents graph is a forest: every live view is in the
\* dependents list of its base_id, once, and in no other list, and no table
\* or view is among its own transitive dependents
C11_DependentsForest ==
    /\ \A v \in Views :
          /\ tbls[v].base_id \in DOMAIN tbl_dependents
          /\ \A i \in DOMAIN tbl_dependents :
                Count(tbl_dependents[i], v) = IF i = tbls[v].base_id THEN 1 ELSE 0
    /\ \A i \in DOMAIN tbl_dependents : i \notin Descendants(i)

\* after a view was dropped, a snapshot without a TableVersion of its own
\* and another view share a base
C11_Witness ==
    /\ \E d \in Created : d \notin DOMAIN tbls
    /\ \E v, s \in Views : tbls[s].snapshot_only /\ tbls[v].name # tbls[s].name
                             /\ tbls[v].base_id = tbls[s].base_id

\* the drops, by name or on a handle
Drops == {"drop_table", "View._drop"}

\* a sequence without the entries equal to x
Without(seq, x) == SelectSeq(seq, LAMBDA y : y # x)

\* C12: dropping a view (with or without a TableVersion of its own) removes
\* it from tbls, from the dependents list of its base and removes its own
\* dependents entry, and changes no other catalog entry; the drop of a view
\* without a TableVersion of its own drops no TableVersion, the drop of any
\* other view drops that view's TableVersion only
C12_DropFrame ==
    [][(last'.op \in Drops /\ last'.ok /\ last'.id \in Views /\ last'.dropped = <<last'.id>>) =>
          LET id == last'.id
              base_id == tbls[id].base_id
          IN  /\ tbls' = RemoveKey(tbls, id)
              /\ tbl_dependents' =
                    RemoveKey([tbl_dependents EXCEPT
                                  ![base_id] = Without(tbl_dependents[base_id], id)], id)
              /\ dropped_versions' =
                    IF tbls[id].snapshot_only THEN dropped_versions
                    ELSE dropped_versions \cup {id}
              /\ UNCHANGED <<dataset_cache, session, scan, version, schema, store, next_id>>]_vars

\* a snapshot without a TableVersion of its own was dropped while another
\* view of the same base stays in the catalog
C12_Witness ==
    /\ last.op = "drop_table" /\ last.ok /\ last.dropped = <<last.id>>
    /\ is_dropped[last.id] /\ dropped_versions = {}
    /\ \E v \in Views : ~tbls[v].snapshot_only /\ tbls[v].base_id = 1

\* C13: no table or view is dropped while one of its dependents stays in the
\* catalog: a drop removes the dependents of an object before the object,
\* View._drop on a view with a live entry in its dependents list fails and
\* drops nothing, and the base of every live view is in the catalog
C13_DropOrdering ==
    [][/\ \A x \in DOMAIN tbls \ DOMAIN tbls' :
             \A d \in Range(tbl_dependents[x]) : d \notin DOMAIN tbls'
       /\ last'.op \in Drops =>
             \A p, q \in DOMAIN last'.dropped :
                 (tbls[last'.dropped[p]].kind = "view"
                     /\ tbls[last'.dropped[p]].base_id = last'.dropped[q]) => p < q
       /\ (last'.op = "View._drop" /\ last'.id \in Views
               /\ tbl_dependents[last'.id] # <<>>) =>
             ~last'.ok /\ UNCHANGED <<dataset_cache, session, scan, tbls, tbl_dependents, _is_dropped, dropped_versions>>
       /\ \A v \in DOMAIN tbls' : tbls'[v].kind = "view" => tbls'[v].base_id \in DOMAIN tbls']_vars

\* View._drop was called on a view that another live view depends on
C13_Witness ==
    /\ last.op = "View._drop" /\ ~last.ok /\ last.err = "AssertionError"
    /\ last.id \in Views /\ \E v \in Views : tbls[v].base_id = last.id

\* C14 as stated: every view that was dropped has its _is_dropped flag set,
\* also a view without a TableVersion of its own and a view dropped as a
\* dependent by replace_force
C14_DroppedMarked == \A d \in Created : d \notin DOMAIN tbls => _is_dropped[d]

\* ------------------------------------------- properties of create_view
\* the catalog, the handles and the stores are as before the call
CatalogUnchanged ==
    UNCHANGED <<dataset_cache, session, scan, tbls, tbl_dependents, version, schema, store, next_id,
                _is_dropped, is_dropped, dropped_versions>>

\* the call create_view found its name held by a view
NameHeldByView(call) == \E e \in call.existing : tbls[e].kind = "view"

\* C17: create_view on a name that holds a view fails with 'already exists'
\* under if_exists='error' and returns the existing view, same id, under
\* 'ignore', with or without dependents of that view; either way the catalog
\* and the dependents of the existing view are unchanged
C17_ErrorAndIgnore ==
    [][(last'.op = "pxt.create_view" /\ NameHeldByView(last')
            /\ last'.if_exists \in {"error", "ignore"}) =>
          /\ CatalogUnchanged
          /\ last'.if_exists = "error" => ~last'.ok /\ last'.err = "already exists"
          /\ last'.if_exists = "ignore" => last'.ok /\ last'.returned = last'.existing]_vars

\* 'ignore' returned an existing view that has a dependent
C17_Witness ==
    /\ last.op = "pxt.create_view" /\ last.if_exists = "ignore" /\ last.ok
    /\ \E e \in last.returned : e \in last.existing /\ tbl_dependents[e] # <<>>

\* C18: create_view with if_exists='replace' on a name whose view has a
\* dependent fails, naming 'already exists', 'has dependents' and
\* 'replace_force', and leaves the catalog as it was; on a view without
\* dependents it drops that view and, unless the new view was declared on the
\* dropped one, creates a view with another id under the name
C18_Replace ==
    [][(last'.op = "pxt.create_view" /\ NameHeldByView(last')
            /\ last'.if_exists = "replace") =>
          \A e \in last'.existing :
              IF tbl_dependents[e] # <<>>
              THEN /\ ~last'.ok
                   /\ last'.err = "already exists and has dependents, use replace_force"
                   /\ CatalogUnchanged
              ELSE /\ e \notin DOMAIN tbls' /\ e \notin DOMAIN tbl_dependents'
                   /\ PathTblId(tbls[last'.base].path) # e =>
                         /\ last'.ok
                         /\ \E n \in last'.returned :
                               /\ n # e /\ n \notin DOMAIN tbls /\ n \in DOMAIN tbls'
                               /\ tbls'[n].name = last'.name]_vars

\* 'replace' was refused for a view with a dependent
C18_Witness ==
    /\ last.op = "pxt.create_view" /\ last.if_exists = "replace" /\ ~last.ok
    /\ \E e \in last.existing : e \in Views /\ tbl_dependents[e] # <<>>

\* the existing view with all its transitive dependents
WithDependents(e) == {e} \cup Descendants(e)

\* C19 as stated: create_view with if_exists='replace_force' drops the
\* existing view and all its transitive dependents, each dependent before
\* the object it depends on, and then creates the view: every former
\* dependent is marked dropped and is out of the catalog, and the new view
\* has another id
C19_ReplaceForce ==
    [][(last'.op = "pxt.create_view" /\ NameHeldByView(last')
            /\ last'.if_exists = "replace_force") =>
          \A e \in last'.existing :
              /\ Range(last'.dropped) = WithDependents(e)
              /\ \A p, q \in DOMAIN last'.dropped :
                    tbls[last'.dropped[p]].base_id = last'.dropped[q] => p < q
              /\ \A d \in WithDependents(e) :
                    d \notin DOMAIN tbls' /\ d \notin DOMAIN tbl_dependents'
              /\ \A d \in Descendants(e) : _is_dropped'[d]
              /\ PathTblId(tbls[last'.base].path) \notin WithDependents(e) =>
                    /\ last'.ok
                    /\ \E n \in last'.returned :
                          n \notin DOMAIN tbls /\ n \in DOMAIN tbls'
                              /\ tbls'[n].name = last'.name]_vars

\* C20: create_view on a name held by an object that is not a view fails
\* under each of the four policies and leaves that object and the rest of the
\* catalog as they were
C20_NotAView ==
    [][(last'.op = "pxt.create_view"
            /\ \E e \in last'.existing : tbls[e].kind # "view") =>
          /\ ~last'.ok
          /\ CatalogUnchanged
          /\ last'.err = IF last'.if_exists = "error" THEN "already exists"
                         ELSE "already exists but is not a view"]_vars

\* 'replace_force' on the name of the base table, which has dependents
C20_Witness ==
    /\ last.op = "pxt.create_view" /\ last.if_exists = "replace_force" /\ ~last.ok
    /\ last.name = "test_tbl" /\ tbl_dependents[1] # <<>>

\* ------------------------------------- properties of View._create's checks
\* the snapshot versions the catalog refers to: (table id, pinned version)
SnapshotVersions(T) ==
    UNION {{<<T[i].path[k].id, T[i].path[k].version>> :
               k \in {j \in DOMAIN T[i].path : T[i].path[j].is_snapshot}} : i \in DOMAIN T}

\* the filter or a value expression of the call refers to a TableVersion that
\* is not in the path of the base it names
RefersOutsideBase(call) ==
    LET base == tbls[call.base].path
        src_path == tbls[call.src].path
    IN  \/ ~IsBoundBy(PredRefs(call.predicate), src_path, base)
        \/ \E c \in call.cols \ RequiredCols : ~IsBoundBy(ColRefs(c), src_path, base)

\* the call does not pass the checks of View._create
FailsValidation(call) ==
    \/ call.cols \cap RequiredCols # {}
    \/ call.cols \cap PathCols(tbls[call.base].path, schema) # {}
    \/ RefersOutsideBase(call)
    \/ call.iterator = "bad_args"
    \/ call.iterator = "dup_name" /\ "x3" \in call.cols

C16_UnboundRejected ==
    [][(last'.op = "pxt.create_view" /\ last'.entered /\ RefersOutsideBase(last')) =>
          /\ ~last'.ok
          /\ DOMAIN tbls' = DOMAIN tbls]_vars

\* a view with a computed column over the columns of the table was refused
\* on a snapshot of the table taken at the table's current version
C16_Witness ==
    /\ last.op = "pxt.create_view" /\ ~last.ok /\ last.src = 1
    /\ last.err = "value expression cannot be computed in the context of the base"
    /\ tbls[last.base].snapshot_only /\ tbls[last.base].base_id = 1
    /\ tbls[last.base].path[1].version = version[1]

\* ------------------------------------------------------------ add_columns
\* an add_columns step under one of the replace policies
ReplaceCall(call) ==
    call.op = "add_columns" /\ call.if_exists \in {"replace", "replace_force"}

\* C21: adding a column to a view with if_exists='replace' or 'replace_force'
\* never replaces a column owned by a base: the call fails and no column, row
\* or version changes. A column the view owns is replaced only if no other
\* column depends on it; otherwise the call fails and nothing changes.
C21_NoBaseColumnReplaced ==
    [][ReplaceCall(last') =>
          /\ last'.base # {} =>
                ~last'.ok /\ UNCHANGED <<dataset_cache, session, scan, columns, schema, store, version>>
          /\ last'.existing \cap last'.dependents # {} =>
                ~last'.ok /\ UNCHANGED <<dataset_cache, session, scan, columns, schema, store, version>>
          /\ last'.ok =>
                \A i \in DOMAIN last'.call :
                    last'.call[i].name \in last'.existing =>
                        /\ last'.call[i].name \notin last'.dependents
                        /\ last'.call[i] \in Range(columns'[last'.id])
                        /\ last'.call[i].name \notin schema'[last'.id]
                        /\ \A k \in Ids \ {last'.id} :
                              columns'[k] = columns[k] /\ schema'[k] = schema[k]]_vars

\* a replace of a column of the base was refused on a view that has a column
\* of its own which a third column is computed from
C21_Witness ==
    /\ ReplaceCall(last)
    /\ ~last.ok
    /\ last.base # {}
    /\ \E c \in Range(columns[last.id]) : HasDependents(last.id, c.name)

\* C22: a multi-column add on a view that names an existing column under the
\* default policy, or a column of a base under a replace policy, fails and
\* leaves the view's columns as they were; under 'ignore' it succeeds, keeps
\* the existing columns as they are and adds the new ones.
C22_MultiAddAllOrNothing ==
    [][(last'.op = "add_columns" /\ Len(last'.call) > 1) =>
          LET d == last'.id
              newnames == ColumnNames(last'.call) \ last'.existing
          IN  /\ (last'.if_exists = "error" /\ last'.existing # {}) =>
                    ~last'.ok /\ UNCHANGED <<dataset_cache, session, scan, columns, schema>>
              /\ (ReplaceCall(last') /\ last'.base # {}) =>
                    ~last'.ok /\ UNCHANGED <<dataset_cache, session, scan, columns, schema>>
              /\ last'.if_exists = "ignore" =>
                    /\ last'.ok
                    /\ schema' = schema
                    /\ DropColumns(columns'[d], newnames) = columns[d]
                    /\ \A i \in DOMAIN last'.call :
                          last'.call[i].name \in newnames =>
                              last'.call[i] \in Range(columns'[d])]_vars

\* a call whose first column is new and whose second column exists has failed
\* and the first column is not there
C22_Witness ==
    /\ last.op = "add_columns"
    /\ Len(last.call) > 1
    /\ ~last.ok
    /\ last.call[1].name \notin last.existing
    /\ last.call[1].name \notin VisibleCols(last.id)

\* ------------------------------------------------------------- DataFrame
\* the builder calls
Mutators == {"select", "where", "group_by", "order_by", "limit"}

\* C23: a builder call (select, where, group_by, order_by, limit) never
\* mutates its receiver: every DataFrame object that exists before the call
\* has the same select list, predicate, group-by, order-by list and limit
\* after it; in particular order_by does not lengthen the receiver's list.
C23_ReceiverNeverMutated ==
    [][last'.op \in Mutators => \A i \in DOMAIN dfs : dfs'[i] = dfs[i]]_vars

\* the object a successful builder call returned
Returned(call, objs) == objs[The(call.returned)]

\* C25: select fails with 'Select list already specified' whenever the
\* receiver has a select list and then builds nothing; a select that succeeds
\* with a non-empty list starts from a receiver without a select list and
\* returns an object with one, and every other builder call hands the select
\* list of its receiver on, so a chain holds at most one successful non-empty
\* select.
C25_SelectOnce ==
    [][/\ (last'.op = "select" /\ last'.before.select_list # None) =>
             /\ ~last'.ok
             /\ last'.err = "Select list already specified"
             /\ dfs' = dfs
       /\ (last'.op = "select" /\ last'.ok /\ last'.returned # {last'.self}) =>
             /\ last'.before.select_list = None
             /\ Returned(last', dfs').select_list # None
       /\ (last'.op \in Mutators \ {"select"} /\ last'.ok) =>
             Returned(last', dfs').select_list = last'.before.select_list]_vars

\* a second select on the result of a select was refused
C25_Witness ==
    /\ last.op = "select"
    /\ ~last.ok
    /\ last.err = "Select list already specified"
    /\ last.before.select_list # None
    /\ Len(last.args.items) > 0

\* the names before position i of a list of names
Earlier(names, i) == {names[k] : k \in 1..(i - 1)}

\* names is the naming the rules give to a select list: the user's name, the
\* default name, the default name with the smallest free suffix, or col_i
NamedByTheRules(select_list, names) ==
    /\ Len(names) = Len(select_list)
    /\ \A i \in DOMAIN select_list :
          LET ent == select_list[i]
              default_name == default_column_name(ent.expr)
          IN  CASE ent.name # None -> names[i] = The(ent.name)
                [] default_name = None -> names[i] = PositionName(i - 1)
                [] The(default_name) \notin Earlier(names, i) ->
                      names[i] = The(default_name)
                [] OTHER ->
                      \E j \in 1..Len(select_list) :
                          /\ names[i] = Suffixed(The(default_name), j)
                          /\ names[i] \notin Earlier(names, i)
                          /\ \A k \in 1..(j - 1) :
                                Suffixed(The(default_name), k) \in Earlier(names, i)

\* the select list a select call is made with
CallList(call) ==
    [i \in DOMAIN call.args.items |-> [expr |-> call.args.items[i].expr, name |-> None]]
    \o [i \in DOMAIN call.args.named_items |->
            [expr |-> call.args.named_items[i].item.expr,
             name |-> Some(call.args.named_items[i].name)]]

Distinct(names) == \A i, j \in DOMAIN names : names[i] = names[j] => i = j

\* C26: the output names of a select that succeeds follow the naming rules
\* (default name; default_j for the smallest j >= 1 not used by an earlier
\* entry; col_i for an expression without a default name; a user-supplied
\* name as given) and are pairwise distinct; select fails with 'Repeated
\* column name', building nothing, exactly when the names the rules give are
\* not pairwise distinct; every DataFrame has pairwise distinct output names.
C26_OutputNames ==
    /\ [][(last'.op = "select" /\ last'.ok /\ last'.returned # {last'.self}) =>
             /\ NamedByTheRules(CallList(last'), Returned(last', dfs')._schema)
             /\ Distinct(Returned(last', dfs')._schema)]_vars
    /\ [][(last'.op = "select" /\ last'.err = "Repeated column name") =>
             /\ dfs' = dfs
             /\ \A names \in {OutNames(CallList(last'))} :
                   NamedByTheRules(CallList(last'), names) /\ ~Distinct(names)]_vars
    /\ [](\A i \in DOMAIN dfs : Distinct(dfs[i]._schema))

\* select(c2, c2, c2) returned the names c2, c2_1, c2_2
C26_Witness ==
    /\ last.op = "select"
    /\ last.ok
    /\ \E i \in DOMAIN dfs :
          /\ last.returned = {i}
          /\ dfs[i]._schema = <<"c2", "c2_1", "c2_2">>

\* the entries an order_by call adds: each expression with the direction of
\* the call
Added(call) ==
    [i \in DOMAIN call.args.expr_list |->
        [expr |-> call.args.expr_list[i].expr, asc |-> call.args.asc]]

\* C28: the order-by list of d.order_by(e1..ek, asc=a) is the list d had
\* before the call, in its order, followed by (e1, a) .. (ek, a); the other
\* builder calls hand the list on as it is, so successive order_by calls
\* accumulate in call order.
C28_OrderByAppends ==
    [][/\ (last'.op = "order_by" /\ last'.ok) =>
             Returned(last', dfs').order_by_clause =
                 Some((IF last'.before.order_by_clause = None
                       THEN <<>> ELSE The(last'.before.order_by_clause)) \o Added(last'))
       /\ (last'.op \in Mutators \ {"order_by"} /\ last'.ok) =>
             Returned(last', dfs').order_by_clause = last'.before.order_by_clause]_vars

\* an order_by of two expressions on a DataFrame that had one entry returned
\* a list of three
C28_Witness ==
    /\ last.op = "order_by"
    /\ last.ok
    /\ last.before.order_by_clause # None
    /\ Len(The(last.before.order_by_clause)) = 1
    /\ Len(last.args.expr_list) = 2
    /\ Len(The(dfs[The(last.returned)].order_by_clause)) = 3

\* table x is a strict ancestor of a queried path: the table its version
\* path stands for is in the path and is not the queried table itself
StrictAncestor(path, x) ==
    /\ PathTblId(tbls[x].path) \in PathIds(path)
    /\ PathTblId(tbls[x].path) # PathTblId(path)

\* the positions of a group_by call that hold a table
TableArgs(call) ==
    {i \in DOMAIN call.args.grouping_items : call.args.grouping_items[i].kind = "table"}

\* C27: no DataFrame has both a group-by expression list and a grouping
\* table; a group_by call with a table argument succeeds only if the table is
\* its sole argument and a strict ancestor of the queried path, and then sets
\* the grouping table and no expression list; otherwise it fails and builds
\* nothing.
C27_GroupByTable ==
    /\ [](\A i \in DOMAIN dfs :
             dfs[i].group_by_clause = None \/ dfs[i].grouping_tbl = None)
    /\ [][(last'.op = "group_by" /\ TableArgs(last') # {}) =>
             LET items == last'.args.grouping_items
                 accepted == /\ Len(items) = 1
                             /\ StrictAncestor(last'.before.tbl, The(items[1].tbl))
             IN  /\ last'.ok => accepted
                 /\ (accepted /\ last'.before.group_by_clause = None) => last'.ok
                 /\ last'.ok =>
                       /\ Returned(last', dfs').grouping_tbl =
                              Some(tbls[The(items[1].tbl)].path[1])
                       /\ Returned(last', dfs').group_by_clause = None
                 /\ ~last'.ok => dfs' = dfs]_vars

\* the DataFrame of a view on a view was grouped by the table at the root of
\* its path
C27_Witness ==
    /\ last.op = "group_by"
    /\ last.ok
    /\ Len(last.before.tbl) = 3
    /\ last.args.grouping_items = <<TableItem(1)>>
    /\ dfs[The(last.returned)].grouping_tbl = Some(tbls[1].path[1])

\* update, delete and create_view called on a DataFrame
DataFrameMutations == {"df.update", "df.delete", "df.create_view"}
MutationName(op) ==
    CASE op = "df.update" -> "update"
      [] op = "df.delete" -> "delete"
      [] op = "df.create_view" -> "create_view"

\* clause c has been applied to a DataFrame
ClauseApplied(df, c) ==
    CASE c = "group_by" -> df.group_by_clause # None \/ df.grouping_tbl # None
      [] c = "order_by" -> df.order_by_clause # None
      [] c = "select" -> df.select_list # None
      [] c = "limit" -> df.limit_val # None

ClauseNames == {"group_by", "order_by", "select", "limit"}

\* C24: update, delete and create_view on a DataFrame to which a group-by
\* (expression list or grouping table), an order-by, a select list or a limit
\* has been applied fail with 'Cannot use <op> after <clause>', naming an
\* applied clause, and change no version, row or catalog entry; a call that
\* succeeds was made on a DataFrame with at most a where clause.
C24_MutationNeedsBareFilter ==
    [][last'.op \in DataFrameMutations =>
          LET applied == {c \in ClauseNames : ClauseApplied(last'.df, c)}
          IN  /\ applied # {} =>
                    /\ ~last'.ok
                    /\ \E c \in applied :
                          last'.err = "Cannot use " \o MutationName(last'.op)
                                          \o " after " \o c
                    /\ UNCHANGED <<dataset_cache, session, scan, tbls, tbl_dependents, version, schema, store,
                                   next_id, next_rowid, columns, dfs>>
              /\ last'.ok => applied = {}]_vars

\* an update through a DataFrame with a limit was refused on a table that
\* has rows
C24_Witness ==
    /\ last.op = "df.update"
    /\ ~last.ok
    /\ last.df.limit_val # None
    /\ last.df.select_list = None
    /\ store[1] # {}

\* the variables of an expression, as (name, type) pairs
VarsOf(e) == {[name |-> e[i].a, type |-> e[i].b] : i \in {k \in DOMAIN e : e[k].op = "var"}}

\* every variable that occurs in the select list, the where clause, the
\* group-by list or the order-by list of a DataFrame
VarOccurrences(df) ==
    (IF df.select_list = None THEN {}
     ELSE UNION {VarsOf(The(df.select_list)[i].expr) : i \in DOMAIN The(df.select_list)})
    \cup (IF df.where_clause = None THEN {} ELSE VarsOf(The(df.where_clause)))
    \cup (IF df.group_by_clause = None THEN {}
          ELSE UNION {VarsOf(The(df.group_by_clause)[i]) : i \in DOMAIN The(df.group_by_clause)})
    \cup (IF df.order_by_clause = None THEN {}
          ELSE UNION {VarsOf(The(df.order_by_clause)[i].expr) :
                         i \in DOMAIN The(df.order_by_clause)})

\* a name occurs with two types
TypeClash(occ) == \E a, b \in occ : a.name = b.name /\ a.type # b.type

\* C29: parameters() returns one entry per variable name that occurs in the
\* select list, the where clause, the group-by list or the order-by list,
\* mapped to the type of that variable; it fails with 'Multiple definitions
\* of parameter' if and only if a name occurs with two different types.
C29_Parameters ==
    [][last'.op = "parameters" =>
          LET occ == VarOccurrences(last'.before)
          IN  /\ TypeClash(occ) =>
                    ~last'.ok /\ last'.err = "Multiple definitions of parameter"
              /\ ~TypeClash(occ) =>
                    /\ last'.ok
                    /\ last'.params = occ
                    /\ \A a, b \in last'.params : a.name = b.name => a = b]_vars

\* parameters() of a DataFrame with a variable in its select list and another
\* one in its filter returned both
C29_Witness ==
    /\ last.op = "parameters"
    /\ last.ok
    /\ last.before.select_list # None
    /\ last.before.where_clause # None
    /\ Cardinality(last.params) = 2

\* the names a bind call gives values for
ArgNames(call) == {call.args.args[i].name : i \in DOMAIN call.args.args}

\* expression e with every variable that args names replaced by the literal
\* of the value supplied for it
Bound(e, args) ==
    [i \in DOMAIN e |->
        IF e[i].op = "var" /\ \E k \in DOMAIN args : args[k].name = e[i].a
        THEN LET arg == args[CHOOSE k \in DOMAIN args : args[k].name = e[i].a]
             IN  [op |-> "lit", a |-> arg.val.value, b |-> arg.val.type]
        ELSE e[i]]

\* C30: a bind(args) that succeeds returns a new DataFrame in which every
\* variable named in args is replaced by the literal of the supplied value
\* in the select list, the where clause, the group-by list and the order-by
\* list; the variables of the result are those of the receiver whose names
\* are not in args; output names, order-by directions, grouping table and
\* limit are those of the receiver, and the receiver is as it was.
C30_BindSubstitutes ==
    [][(last'.op = "bind" /\ last'.ok) =>
          LET self == last'.before
              res == Returned(last', dfs')
              args == last'.args.args
          IN  /\ last'.returned # {last'.self}
              /\ dfs'[last'.self] = self
              /\ res._select_list_exprs =
                    [i \in DOMAIN self._select_list_exprs |->
                        Bound(self._select_list_exprs[i], args)]
              /\ self.where_clause # None =>
                    res.where_clause = Some(Bound(The(self.where_clause), args))
              /\ self.group_by_clause # None =>
                    res.group_by_clause =
                        Some([i \in DOMAIN The(self.group_by_clause) |->
                                 Bound(The(self.group_by_clause)[i], args)])
              /\ self.order_by_clause # None =>
                    res.order_by_clause =
                        Some([i \in DOMAIN The(self.order_by_clause) |->
                                 [expr |-> Bound(The(self.order_by_clause)[i].expr, args),
                                  asc |-> The(self.order_by_clause)[i].asc]])
              /\ VarOccurrences(res) =
                    {v \in VarOccurrences(self) : v.name \notin ArgNames(last')}
              /\ res._schema = self._schema
              /\ res.grouping_tbl = self.grouping_tbl
              /\ res.limit_val = self.limit_val]_vars

\* the receiver of a builder call carries a grouping: an expression list or a
\* grouping table
Grouped(df) == df.group_by_clause # None \/ df.grouping_tbl # None

\* C40: a group_by call on a DataFrame that already carries a grouping, an
\* expression list or a grouping table, fails with 'Group-by already
\* specified' and builds nothing.
C40_GroupByOnce ==
    [][(last'.op = "group_by" /\ Grouped(last'.before)) =>
          /\ ~last'.ok
          /\ last'.err = "Group-by already specified"
          /\ dfs' = dfs]_vars


\* a successful View._create call, of a snapshot or of a view
Creates(call, is_snapshot) ==
    call.op = "View._create" /\ call.ok /\ call.is_snapshot = is_snapshot

\* a path that mixes live and snapshot versions
Mixed(path) ==
    /\ \E i \in DOMAIN path : path[i].is_snapshot
    /\ \E i \in DOMAIN path : ~path[i].is_snapshot

\* C34: a view created with is_snapshot = TRUE has a path of snapshot versions
\* only, whatever mix of live and snapshot versions its base path is, and its
\* base_versions have one entry per ancestor of the base path, each with the
\* ancestor's id and a concrete version.
C34_SnapshotPathPinned ==
    [][Creates(last', TRUE) =>
          LET view == tbls'[last'.id]
          IN  /\ PathIsSnapshot(view.path)
              /\ Len(view.base_versions) = Len(last'.base_path)
              /\ \A i \in DOMAIN view.base_versions :
                    /\ view.base_versions[i][1] = last'.base_path[i].id
                    /\ view.base_versions[i][2] \in 0..MaxVersion]_vars

\* a snapshot has been created on a base path that mixes live and snapshot
\* versions, after the table had reached version 1
C34_Witness ==
    /\ Creates(last, TRUE)
    /\ Mixed(last.base_path)
    /\ last.version[1] > 0
    /\ PathIsSnapshot(tbls[last.id].path)


\* C35: the base_versions of a view created with is_snapshot = FALSE have one
\* entry per version of the base path, in path order, each with that version's
\* table id and with the null version (-1) if the ancestor is a live version, the
\* pinned version if it is a snapshot version.
C35_BaseVersionsOfView ==
    [][Creates(last', FALSE) =>
          LET view == tbls'[last'.id]
              base == last'.base_path
          IN  /\ Len(view.base_versions) = Len(base)
              /\ \A i \in DOMAIN base :
                    /\ view.base_versions[i][1] = base[i].id
                    /\ view.base_versions[i][2] =
                          IF base[i].is_snapshot THEN base[i].version ELSE -1]_vars

\* a view has been created on a base path with a live version and a snapshot
\* version pinned at a version above 0
C35_Witness ==
    /\ Creates(last, FALSE)
    /\ Mixed(last.base_path)
    /\ \E i \in DOMAIN last.base_path :
          last.base_path[i].is_snapshot /\ tbls[last.id].base_versions[i][2] > 0
    /\ \E i \in DOMAIN last.base_path :
          ~last.base_path[i].is_snapshot /\ tbls[last.id].base_versions[i][2] = -1


\* a call that declares nothing but a snapshot: no filter, no column, no iterator
Pure(call) ==
    /\ call.is_snapshot
    /\ call.predicate = "none"
    /\ call.cols = {}
    /\ call.iterator = "none"

\* the base path as the new view sees it: pinned for a snapshot
SeenBase(call, path) ==
    /\ Len(path) = Len(call.base_path)
    /\ \A i \in DOMAIN path :
          /\ path[i].id = call.base_path[i].id
          /\ call.is_snapshot => path[i].is_snapshot
          /\ ~call.is_snapshot => path[i] = call.base_path[i]

\* C36: a created view is snapshot_only exactly when it was declared as a
\* snapshot with no filter, no columns and no iterator; then it has no
\* TableVersion and no rows of its own and its path is the snapshot base path;
\* otherwise its own TableVersion heads its path, followed by the base path,
\* and its rows are stamped with v_min = the version of that TableVersion.
C36_SnapshotOnly ==
    [][(last'.op = "View._create" /\ last'.ok) =>
          LET id == last'.id
              view == tbls'[id]
          IN  /\ view.snapshot_only <=> Pure(last')
              /\ Pure(last') =>
                    /\ id \notin PathIds(view.path)
                    /\ SeenBase(last', view.path)
                    /\ store'[id] = {} /\ schema'[id] = {} /\ version'[id] = 0
              /\ ~Pure(last') =>
                    /\ view.path[1].id = id
                    /\ view.path[1].is_snapshot = last'.is_snapshot
                    /\ SeenBase(last', Tail(view.path))
                    /\ \A r \in store'[id] :
                          r.vmin = EffVersion(view.path[1], version') /\ r.vmax = {}
                    /\ {r.rid : r \in store'[id]} =
                          Matching(Tail(view.path), last'.predicate, version, store)]_vars

\* a snapshot with an iterator and nothing else has been created on a pure
\* snapshot: it has rows of its own, the pure snapshot has none
C36_Witness ==
    /\ last.op = "View._create" /\ last.ok
    /\ last.is_snapshot /\ last.iterator # "none"
    /\ last.cols = {} /\ last.predicate = "none"
    /\ ~tbls[last.id].snapshot_only
    /\ store[last.id] # {}
    /\ tbls[last.base].snapshot_only
    /\ store[last.base] = {}


\* the paths of the catalog
Paths == {tbls[id].path : id \in DOMAIN tbls}

\* C37: the snapshot path of an all-snapshot path is the path itself; the
\* snapshot path of any path keeps its length and order, reuses the snapshot
\* versions unchanged and has a snapshot copy, pinning the current version,
\* exactly where the path has a live version; computing it again changes
\* nothing. A snapshot is built on that path.
C37_SnapshotPathMinimal ==
    /\ [](\A path \in Paths :
             LET snap == View_get_snapshot_path(path)
             IN  /\ PathIsSnapshot(path) => snap = path
                 /\ Len(snap) = Len(path)
                 /\ \A i \in DOMAIN path :
                       snap[i] = IF path[i].is_snapshot THEN path[i]
                                 ELSE SnapTv(path[i].id, version[path[i].id],
                                             schema[path[i].id])
                 /\ View_get_snapshot_path(snap) = snap)
    /\ [][Creates(last', TRUE) =>
             LET path == tbls'[last'.id].path
                 seen == IF tbls'[last'.id].snapshot_only THEN path ELSE Tail(path)
             IN  \A i \in DOMAIN last'.base_path :
                    last'.base_path[i].is_snapshot => seen[i] = last'.base_path[i]]_vars

\* a snapshot has been created on a path with a live version and a snapshot
\* version that pins an older version than the current one of its table
C37_Witness ==
    /\ Creates(last, TRUE)
    /\ Mixed(last.base_path)
    /\ \E i \in DOMAIN last.base_path :
          /\ last.base_path[i].is_snapshot
          /\ last.base_path[i].version < version[last.base_path[i].id]
          /\ last.base_path[i] \in Range(tbls[last.id].path)


\* C39: after any sequence of creations and drops of views and snapshots,
\* tbls and tbl_dependents have the same view ids as keys, and every entry of
\* every dependents list is a view that is registered in tbls, is not marked
\* dropped and has the key of the list as its base_id.
C39_CatalogConsistent ==
    /\ {id \in DOMAIN tbls : tbls[id].kind = "view"} = DOMAIN tbl_dependents \ {1}
    /\ \A k \in DOMAIN tbl_dependents : \A d \in Range(tbl_dependents[k]) :
          /\ d \in DOMAIN tbls
          /\ tbls[d].kind = "view"
          /\ ~_is_dropped[d] /\ ~is_dropped[d]
          /\ tbls[d].base_id = k

\* a view on a snapshot without a TableVersion of its own is listed under the
\* table, after the snapshot itself and another view have been dropped
C39_Witness ==
    /\ Cardinality({d \in Created : d \notin DOMAIN tbls}) >= 2
    /\ \E d \in Created : d \notin DOMAIN tbls /\ is_dropped[d]
    /\ \E v \in Views : v \in Range(tbl_dependents[1]) /\ PathIsSnapshot(Tail(tbls[v].path))
                          /\ Len(tbls[v].path) = 2 /\ ~tbls[v].path[1].is_snapshot


\* C31: DataFrame.from_dict(df.as_dict()) is a DataFrame with the table path,
\* the select list (expressions and names), the where clause, the group-by
\* list, the grouping table, the order-by list (expressions and directions)
\* and the limit of df, and its as_dict() is the dictionary it was built from.
C31_RoundTrip ==
    [][last'.op = "from_dict" =>
          /\ last'.ok
          /\ LET df == last'.before
                 new == The(last'.result)
             IN  /\ new.tbl = df.tbl
                 /\ new.select_list = df.select_list
                 /\ new.where_clause = df.where_clause
                 /\ new.group_by_clause = df.group_by_clause
                 /\ new.grouping_tbl = df.grouping_tbl
                 /\ new.order_by_clause = df.order_by_clause
                 /\ new.limit_val = df.limit_val
                 /\ new._schema = df._schema
                 /\ as_dict(new) = last'.dict]_vars

\* a DataFrame of a snapshot with a filter, ordered descending, has been
\* serialized and rebuilt, and the dictionary is not the object
C31_Witness ==
    /\ last.op = "from_dict" /\ last.ok
    /\ PathIsSnapshot(last.before.tbl)
    /\ last.before.where_clause # None
    /\ last.before.order_by_clause # None
    /\ \E i \in DOMAIN The(last.before.order_by_clause) :
          ~The(last.before.order_by_clause)[i].asc
    /\ last.dict.where_clause # last.before.where_clause
    /\ last.dict.tbl # last.before.tbl


\* the actual versions of the tables of a path, given the versions ver
ActualVersions(path, ver) == [i \in DOMAIN path |-> EffVersion(path[i], ver)]

\* an export of the same serialized query written at the same actual versions
\* of every table of the path
SameExport(e, df, ver) ==
    /\ as_dict(e.df) = as_dict(df)
    /\ ActualVersions(e.df.tbl, e.version) = ActualVersions(df.tbl, ver)

\* C32: to_coco_dataset returns a cached export exactly when an export of
\* the same serialized query was written at the same actual versions of all
\* tables of the path; and whenever a step changes the actual version of a
\* table of a DataFrame's path, the cache key of the DataFrame changes.
C32_CacheKey ==
    /\ [][last'.op = "to_coco_dataset" =>
             (last'.cached <=>
                 \E e \in dataset_cache : SameExport(e, dfs[last'.self], version))]_vars
    /\ [][\A d \in DOMAIN dfs :
             (dfs'[d] = dfs[d]
                /\ ActualVersions(dfs[d].tbl, version') # ActualVersions(dfs[d].tbl, version))
             => hash_result_set(dfs[d])' # hash_result_set(dfs[d])]_vars

\* a DataFrame was exported, a row was inserted, and the next export of the
\* same DataFrame was not taken from the cache
C32_Witness ==
    /\ last.op = "to_coco_dataset"
    /\ ~last.cached
    /\ \E e \in dataset_cache :
          /\ e.df = dfs[last.self]
          /\ e.cache_key # last.cache_key
          /\ e.version # version


\* a View._create is under way for view id
Creating(id) == session.pc = "in_session" /\ session.id = id

\* the Catalog mentions id: as a key of tbls or of tbl_dependents, or as an
\* entry of a dependents list
InCatalog(id) ==
    \/ id \in DOMAIN tbls
    \/ id \in DOMAIN tbl_dependents
    \/ \E k \in DOMAIN tbl_dependents : id \in Range(tbl_dependents[k])

\* C33 as stated: while a view is being created, the transaction is not
\* committed as long as the view is missing from tbls or from the dependents
\* list of its base.
C33_CommitAfterCatalog ==
    \A id \in Ids :
        (Creating(id) /\ session.committed) =>
            /\ id \in DOMAIN tbls
            /\ id \in Range(tbl_dependents[session.base_id])

\* C33 as the code has it: while a view is being created, the Catalog does
\* not mention it as long as the transaction is not committed; the commit
\* comes first and leaves the view out of tbls and of every dependents list,
\* and the Catalog is complete when View._create returns.
C33_CatalogAfterCommit ==
    /\ [](\A id \in Ids : (Creating(id) /\ ~session.committed) => ~InCatalog(id))
    /\ [](\A id \in Ids : InCatalog(id) => id < next_id)
    /\ [][(session.pc = "in_session" /\ session'.pc = "idle") =>
             /\ session.committed
             /\ session.id \in DOMAIN tbls'
             /\ tbl_dependents'[session.id] = <<>>
             /\ Count(tbl_dependents'[session.base_id], session.id) = 1]_vars

\* the transaction of a view with rows of its own is committed and the
\* Catalog does not mention the view yet
C33_Witness ==
    /\ session.pc = "in_session"
    /\ session.committed
    /\ store[session.id] # {}
    /\ ~InCatalog(session.id)


\* C38: a plan that was opened is closed exactly once, when the scan has run
\* to completion and when fetching a batch raised, and not before; a
\* connection opened for the scan is released when the scan ends, committed
\* after a complete scan and rolled back after a failed one; a connection
\* supplied by the caller is neither committed nor closed.
C38_ScanCloses ==
    /\ [](scan.pc = "open" => (scan.opened = 1 /\ scan.closed = 0 /\ scan.conn = "open"))
    /\ [](scan.pc = "done" => (scan.opened = 1 /\ scan.closed = 1))
    /\ [][(scan.pc = "open" /\ scan'.pc # "open") =>
             /\ scan'.pc = "done"
             /\ last'.op = "_exec end"
             /\ scan'.closed = 1
             /\ scan'.conn = CASE ~scan.own_conn -> "open"
                                 [] last'.ok -> "committed"
                                 [] OTHER -> "rolled back"]_vars

\* a scan on a connection of its own raised after the plan had returned all
\* its batches: the plan is closed and the connection rolled back
C38_Witness ==
    /\ scan.pc = "done"
    /\ last.op = "_exec end" /\ ~last.ok /\ last.err = "Error"
    /\ scan.own_conn /\ scan.conn = "rolled back"
    /\ scan.closed = 1
    /\ scan.left = 0

====
